---- MODULE Spec2Model ----
(***************************************************************************)
(* gemini-chatapp: the persistence repository and its HTTP API (sessions,  *)
(* messages, session files), the AI service (streamed text/image replies,  *)
(* CSV analysis agent with per-session plot storage) and the CSV upload    *)
(* flow of the UI client.                                                  *)
(*                                                                         *)
(* Python values are encoded as follows.  None is the empty sequence and   *)
(* a present value x is <<x>>; a list is a sequence; a table of the store  *)
(* is the sequence of its rows in insertion order (a row's generated id    *)
(* and created_at are its place in that order).  A call of the managed     *)
(* store (.execute()) either succeeds or raises; which one is an input of  *)
(* the operation (its "fault" argument).                                   *)
(***************************************************************************)
EXTENDS Integers, Sequences, FiniteSets, TLC

(***************************************************************************)
(* Bounds of the model.                                                    *)
(***************************************************************************)
MaxMessages == 2
MaxFiles == 1
MaxSaves == 2
MaxTimestamp == 2
MaxPlots == 2
MaxChunks == 2
MaxTurns == 1
MaxChatTurns == 2
MaxLongTurns == 26

IdOrder == <<"s1", "s2">>
SessionIds == {IdOrder[i] : i \in 1..Len(IdOrder)}
Modes == {"core", "image", "csv"}
Roles == {"user", "assistant"}
FileTypes == {"csv_info", "csv_data", "image_info", "image"}
Timestamps == 1..MaxTimestamp
NoSession == ""     \* session_id None (or empty): falsy in "if session_id"
PlotInputs == {"fig", "not json"}
Texts == {<<>>, <<"a">>, <<"b">>}     \* strings, as sequences of characters

\* name, mode, role, content and file_data are payload the store never reads:
\* the requests made directly to the API carry one value of each
StoreModes == {"core"}
StoreRoles == {"user"}

None == <<>>
Some(x) == <<x>>

VARIABLES
    client,     \* ChatRepository.client is set (the store is configured)
    db,         \* the managed store: chat_sessions, chat_messages, session_files
    used,       \* session ids already handed out (uuid4 never repeats one)
    resp,       \* the answer of the last HTTP request
    deletedOk,  \* sessions created, then deleted by a delete_session that returned
                \* True, with nothing written under their id since
    ai,         \* AIService: agents and plots_storage, both keyed by session id
    aiLast,     \* the last AIService call and what it returned
    loop,       \* the backend's event loop and the /ai/chat/csv requests in flight
    stream,     \* the streamed reply in progress (POST /ai/chat, /ai/chat/image)
    ui,         \* st.session_state of the UI client
    now,        \* the number of messages the UI has sent (its clock)
    origin,     \* session id -> the upload a CSV session was created from
    uiLast      \* the last UI operation and the session it restored, if any

storeVars == <<client, db, used, resp, deletedOk>>
aiVars == <<ai, aiLast, loop>>
uiVars == <<ui, now, origin, uiLast>>
vars == <<storeVars, aiVars, stream, uiVars>>

(***************************************************************************)
(* Helpers on sequences.                                                   *)
(***************************************************************************)
SelectRows(rows, sid, keep) ==
    \* rows whose session_id is sid (keep = TRUE) or is not sid (keep = FALSE)
    SelectSeq(rows, LAMBDA r : (r.session_id = sid) = keep)

RECURSIVE SelectFiles(_, _, _)
SelectFiles(rows, sid, ft) ==
    IF rows = <<>> THEN <<>>
    ELSE LET r == Head(rows)
             rest == SelectFiles(Tail(rows), sid, ft)
         IN IF r.session_id = sid /\ r.file_type = ft THEN <<r>> \o rest ELSE rest

PlaceByTimestamp(rows, i) ==
    \* the place of rows[i] in a stable ascending sort: after every row with a
    \* smaller timestamp and every earlier row with the same timestamp
    Cardinality({j \in 1..Len(rows) :
                    \/ rows[j].timestamp < rows[i].timestamp
                    \/ rows[j].timestamp = rows[i].timestamp /\ j <= i})

OrderByTimestamp(rows) ==
    [k \in 1..Len(rows) |-> rows[CHOOSE i \in 1..Len(rows) : PlaceByTimestamp(rows, i) = k]]

OrderByCreatedDesc(rows) ==
    \* created_at is the time of the insert, so the newest row is the last inserted
    [i \in 1..Len(rows) |-> rows[Len(rows) + 1 - i]]

\* the sequences over S of length at most n
RECURSIVE SeqsUpTo(_, _)
SeqsUpTo(S, n) ==
    IF n = 0 THEN {<<>>}
    ELSE LET shorter == SeqsUpTo(S, n - 1)
         IN shorter \cup {Append(q, x) : q \in shorter, x \in S}

SessionExists(d, sid) == \E i \in 1..Len(d.chat_sessions) : d.chat_sessions[i].session_id = sid

(***************************************************************************)
(* ChatRepository.  Every operation takes the store d and returns          *)
(* [db: the store afterwards, ret: the return value, raised: whether the   *)
(* call left the method by an exception].                                  *)
(***************************************************************************)
Result(d, ret, raised) == [db |-> d, ret |-> ret, raised |-> raised]

create_session(d, session_data, fault) ==
    IF ~client THEN Result(d, None, FALSE)
    ELSE IF fault THEN Result(d, None, TRUE)
    ELSE LET row == [session_id |-> session_data.session_id,
                     name |-> session_data.name,
                     mode |-> session_data.mode]
         IN Result([d EXCEPT !.chat_sessions = Append(@, row)], Some(row), FALSE)

\* add_message as an upsert that rewrites the newest row of the table
add_message_upsert(d, session_id, message_data, fault) ==
    IF ~client THEN Result(d, None, FALSE)
    ELSE IF fault THEN Result(d, None, TRUE)
    ELSE LET row == [session_id |-> session_id,
                     role |-> message_data.role,
                     content |-> message_data.content,
                     timestamp |-> message_data.timestamp]
         IN IF d.chat_messages = <<>>
            THEN Result([d EXCEPT !.chat_messages = Append(@, row)], Some(row), FALSE)
            ELSE Result([d EXCEPT !.chat_messages[Len(d.chat_messages)] = row], Some(row), FALSE)

add_message(d, session_id, message_data, fault) ==
    IF ~client THEN Result(d, None, FALSE)
    ELSE IF fault THEN Result(d, None, TRUE)
    ELSE LET row == [session_id |-> session_id,
                     role |-> message_data.role,
                     content |-> message_data.content,
                     timestamp |-> message_data.timestamp]
         IN Result([d EXCEPT !.chat_messages = Append(@, row)], Some(row), FALSE)

\* get_session_messages without .order("timestamp")
get_session_messages_unordered(d, session_id, fault) ==
    IF ~client THEN Result(d, <<>>, FALSE)
    ELSE IF fault THEN Result(d, <<>>, TRUE)
    ELSE Result(d, SelectRows(d.chat_messages, session_id, TRUE), FALSE)

get_session_messages(d, session_id, fault) ==
    IF ~client THEN Result(d, <<>>, FALSE)
    ELSE IF fault THEN Result(d, <<>>, TRUE)
    ELSE Result(d, OrderByTimestamp(SelectRows(d.chat_messages, session_id, TRUE)), FALSE)

get_all_sessions(d, fault) ==
    \* fault: 0 = no call fails, 1 = the select of chat_sessions fails,
    \* 2 = a get_session_messages of the loop fails
    IF ~client THEN Result(d, <<>>, FALSE)
    ELSE IF fault = 1 THEN Result(d, <<>>, TRUE)
    ELSE LET sessions == OrderByCreatedDesc(d.chat_sessions)
         IN IF fault = 2 /\ sessions # <<>> THEN Result(d, <<>>, TRUE)
            ELSE Result(d,
                        [i \in 1..Len(sessions) |->
                            \* created_at: the rank of the row's insert time
                            [session_id |-> sessions[i].session_id,
                             name |-> sessions[i].name,
                             mode |-> sessions[i].mode,
                             created_at |-> Len(sessions) + 1 - i,
                             messages |-> get_session_messages(d, sessions[i].session_id, FALSE).ret]],
                        FALSE)

delete_session_files(d, session_id, fault) ==
    IF ~client THEN Result(d, FALSE, FALSE)
    ELSE IF fault THEN Result(d, FALSE, FALSE)
    ELSE Result([d EXCEPT !.session_files = SelectRows(@, session_id, FALSE)], TRUE, FALSE)

delete_session(d, session_id, faults) ==
    \* faults: the cascade steps ("files", "messages", "session") whose store call raises
    IF ~client THEN Result(d, FALSE, FALSE)
    ELSE LET d1 == delete_session_files(d, session_id, "files" \in faults).db
             d2 == [d1 EXCEPT !.chat_messages = SelectRows(@, session_id, FALSE)]
             d3 == [d2 EXCEPT !.chat_sessions = SelectRows(@, session_id, FALSE)]
         IN IF "messages" \in faults THEN Result(d1, FALSE, FALSE)
            ELSE IF "session" \in faults THEN Result(d2, FALSE, FALSE)
            ELSE Result(d3, TRUE, FALSE)

save_session_file(d, session_id, file_type, file_data, file_name, fault) ==
    IF ~client THEN Result(d, None, FALSE)
    ELSE IF fault THEN Result(d, None, FALSE)
    ELSE LET row == [session_id |-> session_id,
                     file_type |-> file_type,
                     file_name |-> file_name,
                     file_data |-> file_data]
         IN Result([d EXCEPT !.session_files = Append(@, row)], Some(row), FALSE)

get_session_file(d, session_id, file_type, fault) ==
    IF ~client THEN Result(d, None, FALSE)
    ELSE IF fault THEN Result(d, None, FALSE)
    ELSE LET found == SelectFiles(d.session_files, session_id, file_type)
         IN IF Len(found) > 0 THEN Result(d, Some(found[1]), FALSE)
            ELSE Result(d, None, FALSE)

(***************************************************************************)
(* HTTP API over the repository (SessionService and ChatService only pass  *)
(* the call through).  A handler returns [db, status, detail, ret,         *)
(* unhandled]: unhandled says that an exception left the handler, which    *)
(* the framework answers with status 500.                                  *)
(***************************************************************************)
Http(d, status, detail, ret, unhandled) ==
    [db |-> d, status |-> status, detail |-> detail, ret |-> ret, unhandled |-> unhandled]

api_get_all_sessions(d, fault) ==
    LET answer(r) == IF r.raised THEN Http(r.db, 500, "Internal Server Error", None, TRUE)
                     ELSE Http(r.db, 200, "", r.ret, FALSE)
    IN answer(get_all_sessions(d, fault))

api_create_session(d, session, fault) ==
    LET answer(r) ==
            IF r.raised THEN Http(r.db, 500, "Internal Server Error", None, TRUE)
            ELSE IF r.ret = None THEN Http(r.db, 500, "Failed to create session", None, FALSE)
            ELSE Http(r.db, 200, "", r.ret, FALSE)
    IN answer(create_session(d, session, fault))

api_delete_session(d, session_id, faults) ==
    LET answer(r) == IF ~r.ret THEN Http(r.db, 404, "Session not found", None, FALSE)
                     ELSE Http(r.db, 200, "Session deleted successfully", None, FALSE)
    IN answer(delete_session(d, session_id, faults))

api_save_session_file(d, session_id, file_data, fault) ==
    LET answer(r) == IF r.ret = None THEN Http(r.db, 404, "Session not found", None, FALSE)
                     ELSE Http(r.db, 200, "", r.ret, FALSE)
    IN answer(save_session_file(d, session_id, file_data.file_type, file_data.file_data,
                                file_data.file_name, fault))

api_get_session_file(d, session_id, file_type, fault) ==
    LET answer(r) == IF r.ret = None THEN Http(r.db, 404, "File not found", None, FALSE)
                     ELSE Http(r.db, 200, "", r.ret, FALSE)
    IN answer(get_session_file(d, session_id, file_type, fault))

api_get_session_messages(d, session_id, fault) ==
    LET answer(r) == IF r.raised THEN Http(r.db, 500, "Internal Server Error", None, TRUE)
                     ELSE Http(r.db, 200, "", r.ret, FALSE)
    IN answer(get_session_messages(d, session_id, fault))

api_add_message(d, session_id, message, fault) ==
    LET answer(r) ==
            IF r.raised THEN Http(r.db, 500, "Internal Server Error", None, TRUE)
            ELSE IF r.ret = None THEN Http(r.db, 404, "Session not found", None, FALSE)
            ELSE Http(r.db, 200, "", r.ret, FALSE)
    IN answer(add_message(d, session_id, message, fault))

(***************************************************************************)
(* AIService, CSV analysis.  The service state a is [agents: session id -> *)
(* the dataset the cached agent is bound to, plots_storage: session id ->  *)
(* list of figures].  What the agent does while it runs is an input "run": *)
(* create_fails (building the agent raises), plots (the arguments of its   *)
(* plotChart calls, in order), raises (agent.run ends with an exception).  *)
(***************************************************************************)
\* the empty table, where no table was used; index = <<>> is the default row
\* index 0, 1, 2, ...
NoFrame == [columns |-> <<>>, rows |-> <<>>, index |-> <<>>]

NewAIService == [agents |-> <<>>, plots_storage |-> <<>>]

Truthy(session_id) == session_id # NoSession

Put(f, k, v) == [x \in DOMAIN f \cup {k} |-> IF x = k THEN v ELSE f[x]]

\* plotChart that puts the new figure in front of the session's list
plotChart_prepend(a, session_id, data) ==
    IF data = "not json" THEN a
    ELSE IF Truthy(session_id)
         THEN LET stored == IF session_id \in DOMAIN a.plots_storage
                            THEN a.plots_storage[session_id] ELSE <<>>
              IN [a EXCEPT !.plots_storage = Put(@, session_id, <<data>> \o stored)]
         ELSE a

plotChart(a, session_id, data) ==
    \* json.loads/from_json raise on a bad argument: the tool returns an error string
    IF data = "not json" THEN a
    ELSE IF Truthy(session_id)
         THEN LET stored == IF session_id \in DOMAIN a.plots_storage
                            THEN a.plots_storage[session_id] ELSE <<>>
              IN [a EXCEPT !.plots_storage = Put(@, session_id, Append(stored, data))]
         ELSE a

RECURSIVE RunPlots(_, _, _)
RunPlots(a, session_id, plots) ==
    IF plots = <<>> THEN a
    ELSE RunPlots(plotChart(a, session_id, Head(plots)), session_id, Tail(plots))

\* _get_or_create_agent that builds a new agent on every call
get_or_create_agent_rebuild(a, dataframe, session_id, create_fails) ==
    IF create_fails THEN [ai |-> a, agent |-> NoFrame, raised |-> TRUE]
    ELSE [ai |-> IF Truthy(session_id)
                 THEN [a EXCEPT !.agents = Put(@, session_id, dataframe)] ELSE a,
          agent |-> dataframe, raised |-> FALSE]

get_or_create_agent(a, dataframe, session_id, create_fails) ==
    \* [ai, agent: the dataset the agent answers from, raised]
    IF Truthy(session_id) /\ session_id \in DOMAIN a.agents
    THEN [ai |-> a, agent |-> a.agents[session_id], raised |-> FALSE]
    ELSE IF create_fails THEN [ai |-> a, agent |-> NoFrame, raised |-> TRUE]
    ELSE [ai |-> IF Truthy(session_id)
                 THEN [a EXCEPT !.agents = Put(@, session_id, dataframe)] ELSE a,
          agent |-> dataframe, raised |-> FALSE]

Content(kind, df) == [kind |-> kind, df |-> df]

generate_csv_response(a, dataframe, session_id, run) ==
    \* [ai, ret: the string returned, raised: an exception left the method]
    IF dataframe = None
    THEN [ai |-> a, ret |-> Content("no dataset", NoFrame), raised |-> FALSE]
    ELSE LET cleared == IF Truthy(session_id)
                        THEN [a EXCEPT !.plots_storage = Put(@, session_id, <<>>)] ELSE a
             \* agent.run(enhanced_query): the agent plots, then answers or raises
             ran(a2, agent) ==
                 IF run.raises
                 THEN [ai |-> a2, ret |-> Content("error analyzing", NoFrame), raised |-> FALSE]
                 ELSE [ai |-> a2, ret |-> Content("answer", agent), raised |-> FALSE]
             created(g) ==
                 IF g.raised
                 THEN [ai |-> g.ai, ret |-> Content("error analyzing", NoFrame), raised |-> FALSE]
                 ELSE ran(RunPlots(g.ai, session_id, run.plots), g.agent)
         IN created(get_or_create_agent(cleared, dataframe[1], session_id, run.create_fails))

get_plots(a, session_id) ==
    IF session_id \in DOMAIN a.plots_storage THEN a.plots_storage[session_id] ELSE <<>>

\* clear_plots that forgets to clear
clear_plots_noop(a, session_id) == a

\* clear_plots that drops the session's entry instead of emptying it
clear_plots_pop(a, session_id) ==
    [a EXCEPT !.plots_storage =
        [k \in DOMAIN a.plots_storage \ {session_id} |-> a.plots_storage[k]]]

clear_plots(a, session_id) ==
    IF session_id \in DOMAIN a.plots_storage
    THEN [a EXCEPT !.plots_storage = Put(@, session_id, <<>>)]
    ELSE a

(***************************************************************************)
(* The csv_data of a /ai/chat/csv request.  A JSON value is [type, value,  *)
(* frame]: type is the Python type it arrives as.  A string is either      *)
(* spelled out (frame = FALSE: value is the sequence of its lines, a line  *)
(* is the sequence of its comma-separated fields, a line without fields is *)
(* blank) or the text DataFrame.to_csv wrote for a frame of the UI (frame  *)
(* = TRUE: value is that text, see to_csv).  A table is [columns, rows].   *)
(***************************************************************************)
\* DataFrame.to_csv and pd.read_csv for a frame of the UI: [table, rows] is the
\* frame, [header, lines] the text with a header line and one line per row
to_csv(df) == [header |-> df.table, lines |-> df.rows]

read_csv(text) == [table |-> text.header, rows |-> text.lines]

Json(type, value) == [type |-> type, value |-> value, frame |-> FALSE]

FrameText(text) == [type |-> "str", value |-> text, frame |-> TRUE]

JsonNull == Json("NoneType", <<>>)

NonBlankLines(lines) == SelectSeq(lines, LAMBDA l : l # <<>>)

\* str.strip() of the text is not empty
Stripped(lines) == NonBlankLines(lines) # <<>>

\* pandas names a repeated header field name, name.1, name.2, ...
MangleDupeCols(header) ==
    [i \in 1..Len(header) |->
        [name |-> header[i],
         dup |-> Cardinality({j \in 1..(i - 1) : header[j] = header[i]})]]

\* a missing field and an empty field are both read as NaN
PadLine(line, n) == [i \in 1..n |-> IF i <= Len(line) /\ line[i] # "" THEN line[i] ELSE "NaN"]

\* pd.read_csv with header=None: the first line is data, columns are numbered
pd_read_csv_no_header(lines) ==
    LET kept == NonBlankLines(lines)
    IN [raised |-> kept = <<>>,
        df |-> IF kept = <<>> THEN None
               ELSE Some([columns |-> [i \in 1..Len(kept[1]) |-> [name |-> "", dup |-> i - 1]],
                          rows |-> [k \in 1..Len(kept) |-> PadLine(kept[k], Len(kept[1]))],
                          index |-> <<>>])]

pd_read_csv(lines) ==
    \* blank lines are skipped; the first line left is the header; a first data
    \* line with one field more than the header makes the first field of every
    \* line the row index; a shorter line is filled with NaN, a longer line is a
    \* ParserError
    LET kept == NonBlankLines(lines)
        header == Head(kept)
        data == Tail(kept)
        index_col == data # <<>> /\ Len(data[1]) = Len(header) + 1
        expected == IF index_col THEN Len(header) + 1 ELSE Len(header)
        cells(line) == IF index_col THEN Tail(PadLine(line, expected))
                       ELSE PadLine(line, expected)
    IN IF kept = <<>> THEN [raised |-> TRUE, df |-> None]
       ELSE IF \E k \in 1..Len(data) : Len(data[k]) > expected
       THEN [raised |-> TRUE, df |-> None]
       ELSE [raised |-> FALSE,
             df |-> Some([columns |-> MangleDupeCols(header),
                          rows |-> [k \in 1..Len(data) |-> cells(data[k])],
                          index |-> IF index_col
                                    THEN [k \in 1..Len(data) |-> PadLine(data[k], expected)[1]]
                                    ELSE <<>>])]

\* pd.DataFrame(records): the keys of the records are the columns
pd_DataFrame(records) ==
    [columns |-> IF records = <<>> THEN <<>> ELSE MangleDupeCols(records[1].keys),
     rows |-> [k \in 1..Len(records) |-> records[k].values],
     index |-> <<>>]

\* the label of a column: the header field, or name.1, name.2, ... for a
\* repeated one
DottedNames == [a |-> <<"a.1", "a.2">>, b |-> <<"b.1", "b.2">>]

ColumnLabel(c) == IF c.dup = 0 THEN c.name ELSE DottedNames[c.name][c.dup]

\* DataFrame.to_csv(index=False) of a spelled-out table: the line of the column
\* labels, then one line per row with NaN written as an empty field; the row
\* index is not written
pd_to_csv(df) ==
    [written |-> <<[i \in 1..Len(df.columns) |-> ColumnLabel(df.columns[i])]>>
                    \o [k \in 1..Len(df.rows) |->
                           [i \in 1..Len(df.rows[k]) |->
                               IF df.rows[k][i] = "NaN" THEN "" ELSE df.rows[k][i]]]]

parse_csv_data(csv_data) ==
    \* lines 67-77 of the handler: [raised, df]
    IF csv_data.type = "NoneType" THEN [raised |-> FALSE, df |-> None]
    ELSE IF csv_data.type = "str"
    THEN IF csv_data.frame THEN [raised |-> FALSE, df |-> Some(read_csv(csv_data.value).table)]
         ELSE IF Stripped(csv_data.value) THEN pd_read_csv(csv_data.value)
         ELSE [raised |-> FALSE, df |-> None]
    ELSE IF csv_data.type \in {"list", "dict"}
    THEN IF csv_data.value = <<>> THEN [raised |-> FALSE, df |-> None]
         ELSE [raised |-> FALSE, df |-> Some(pd_DataFrame(csv_data.value))]
    ELSE [raised |-> FALSE, df |-> None]

TwoByTwo == <<<<"a", "b">>, <<"1", "2">>, <<"3", "4">>>>
HeaderOnly == <<<<"a", "b">>>>

\* the strings a client sends: empty, blank, two data lines, a header alone,
\* a short line, a long line, a blank line between data lines, a repeated
\* header field, an index column
CsvTexts ==
    {<<>>, <<<<>>, <<>>>>, TwoByTwo, HeaderOnly,
     <<<<"a", "b">>, <<"1">>>>,
     <<<<"a", "b">>, <<"1", "2">>, <<"3", "4", "5">>>>,
     <<<<"a", "b">>, <<>>, <<"1", "2">>, <<>>, <<"3", "4">>>>,
     <<<<"a", "a">>, <<"1", "2">>>>,
     <<<<"a", "b">>, <<"0", "1", "2">>>>}

CsvPayloads ==
    {JsonNull, Json("int", <<>>), Json("list", <<>>),
     Json("list", <<[keys |-> <<"a", "b">>, values |-> <<"1", "2">>]>>)}
        \cup {Json("str", t) : t \in CsvTexts}

\* the requests of SpecCsvService: no data, two tables, a text that fails to parse
ServicePayloads ==
    {JsonNull, Json("str", TwoByTwo), Json("str", HeaderOnly),
     Json("str", <<<<"a", "b">>, <<"1", "2">>, <<"3", "4", "5">>>>)}

DataFrames == {pd_read_csv(TwoByTwo).df[1], pd_read_csv(HeaderOnly).df[1]}

(***************************************************************************)
(* POST /ai/chat/csv.  The handler is a coroutine without an await, so it  *)
(* runs from its first line to its return without another request in       *)
(* between.  An HTTPException raised inside the handler's try block is an  *)
(* Exception, so the handler's own except clause turns it into status 500. *)
(* The result carries df, the table passed to generate_csv_response.       *)
(***************************************************************************)
chat_with_csv(a, request, run) ==
    IF request.enhanced_query = ""
    THEN [ai |-> a, status |-> 500, content |-> Content("400: Enhanced query is required", NoFrame),
          plots |-> <<>>, agent_ran |-> FALSE, df |-> None]
    ELSE LET respond(df, g) ==
                 [ai |-> clear_plots(g.ai, request.session_id), status |-> 200,
                  content |-> g.ret, plots |-> get_plots(g.ai, request.session_id),
                  \* agent.run is reached with a dataset and an agent, cached or built
                  agent_ran |-> /\ df # None
                                /\ \/ ~run.create_fails
                                   \/ /\ Truthy(request.session_id)
                                      /\ request.session_id \in DOMAIN a.agents,
                  df |-> df]
             parsed(p) ==
                 IF p.raised
                 THEN [ai |-> a, status |-> 500,
                       content |-> Content("400: Failed to parse CSV data", NoFrame),
                       plots |-> <<>>, agent_ran |-> FALSE, df |-> None]
                 ELSE respond(p.df, generate_csv_response(a, p.df, request.session_id, run))
         IN parsed(parse_csv_data(request.csv_data))

Runs == [create_fails : BOOLEAN, plots : SeqsUpTo(PlotInputs, MaxPlots), raises : BOOLEAN]

Call(op, session_id, plots, raised) ==
    \* data: the dataset passed to an analysis call, answer: what the call returned
    \* query, status, agent_ran: of a /ai/chat/csv request; calls: the arguments of
    \* the plotChart calls the agent made while the request ran
    [op |-> op, sid |-> session_id, plots |-> plots, raised |-> raised,
     data |-> None, answer |-> Content("none", NoFrame), csv_data |-> JsonNull,
     query |-> "", status |-> 0, agent_ran |-> FALSE, calls |-> <<>>]

NoCall ==
    [op |-> "none", sid |-> NoSession, plots |-> <<>>, raised |-> FALSE,
     data |-> None, answer |-> Content("none", NoFrame), csv_data |-> JsonNull,
     query |-> "", status |-> 0, agent_ran |-> FALSE, calls |-> <<>>]

(***************************************************************************)
(* Streaming relay.  The stub model produces chunk objects with a content  *)
(* attribute and, optionally, a text attribute that mirrors it (None: the  *)
(* chunk has no such attribute).  str(chunk) is the object's repr.         *)
(***************************************************************************)
StubChunks ==
    {c \in [content : {Some(t) : t \in Texts}, text : {None} \cup {Some(t) : t \in Texts}] :
        c.text = None \/ c.text = c.content}

Str(chunk) == <<"content='">> \o chunk.content[1] \o <<"'">>

Fragment(chunk) ==
    \* the body of the for loop of generate(): what is yielded for one chunk
    IF chunk.content # None /\ chunk.content[1] # <<>> THEN chunk.content[1]
    ELSE IF chunk.text # None /\ chunk.text[1] # <<>> THEN chunk.text[1]
    ELSE Str(chunk)

RECURSIVE Concat(_)
Concat(parts) == IF parts = <<>> THEN <<>> ELSE Head(parts) \o Concat(Tail(parts))

NoStream ==
    [mode |-> "none", upstream |-> <<>>, fail_at |-> 0, pos |-> 0, emitted |-> <<>>,
     state |-> "idle"]

(***************************************************************************)
(* UI client (Streamlit): api_client, session_manager and the CSV page.    *)
(* A DataFrame is [table: what it holds, rows: its number of rows]; CSV    *)
(* text is [header, lines: the number of data lines].  A dict that is read *)
(* with .get(key, 0) is a record holding the defaults, has_keys says       *)
(* whether it is non-empty (truthy).  An attribute of st.session_state     *)
(* that is absent is None.  The UI functions take and return the world     *)
(* [ui, db, ai, ret]: session state, store, AIService and return value.    *)
(***************************************************************************)
StoreMaxMb == 10
StoreMaxRows == 1000
UploadMaxMb == 200
HistoryCap == 50
ImageMaxMb == 10
CompressAboveMb == 2
ImageHistoryCap == 40

UploadSizes == {0, 9, 10, 201}
UploadRows == {0, 1000, 1001}
UiModes == {"core", "csv"}
UserInputs == {"question", " ", "long question"}
CoreUserInputs == UserInputs \cup {"very long question"}
CoreMaxChars == 4000
PageMaxChars == 2000

\* len(user_input.strip()) of the inputs above
StrippedLen(user_input) ==
    CASE user_input = " " -> 0
      [] user_input = "question" -> 8
      [] user_input = "long question" -> PageMaxChars + 1
      [] user_input = "very long question" -> CoreMaxChars + 1
UploadTables == {"dfA"}

\* the store calls that can fail while the UI handles one event: at most one
\* call site fails per event, out of those the event reaches
FaultsOf(sites) == {{}} \cup {{c} : c \in sites}
RenderSites == {"get_csv_info", "get_csv_data", "get_messages"}
DeleteSites == {"files", "messages", "session"}
SendSites == {"create_session", "save_csv_info", "save_csv_data", "add_message"}

\* what the agent does when the UI asks: it plots once, then answers or fails
\* the pages without a dataset, the files put into the image uploader, the
\* store calls of these pages that can fail, the end of a streamed reply
ChatModes == {"core", "image"}
ImageSizes == {0, 2, 10, 11}
ImageRenderSites == {"get_image"}
ChatSendSites == {"create_session", "save_image"}
Replies == {"answer"}

UiRuns == [create_fails : BOOLEAN, plots : {<<"fig">>}, raises : BOOLEAN]

EmptyDict == [has_keys |-> FALSE, size_mb |-> 0, rows |-> 0]

Remove(f, k) == [x \in DOMAIN f \ {k} |-> f[x]]

\* uuid4 returns an id never returned before; which one makes no difference to
\* the client, so the model hands the unused ids out in a fixed order
uuid4(taken) ==
    LET free == {i \in 1..Len(IdOrder) : IdOrder[i] \notin taken}
    IN IF free = {} THEN {}
       ELSE {IdOrder[CHOOSE i \in free : \A j \in free : i <= j]}

World(u, d, a, ret) == [ui |-> u, db |-> d, ai |-> a, ret |-> ret]

NewSessionState ==
    [all_sessions |-> <<>>, current_session |-> NoSession, show_new_chat |-> TRUE,
     current_mode |-> "core", session_data |-> <<>>, temp_df |-> None,
     temp_file_info |-> None, current_messages |-> <<>>, last_session_id |-> NoSession,
     temp_image_data |-> None, uploaded_image_name |-> None,
     cached_sorted_sessions |-> None, cached_sorted_sessions_count |-> 0]

\* api_client: every method answers None, [] or {} unless the status is 200
api_client_create_session(d, session_data, fault) ==
    LET response(h) == Result(h.db, IF h.status = 200 THEN h.ret ELSE None, FALSE)
    IN response(api_create_session(d, session_data, fault))

api_client_get_session_messages(d, session_id, fault) ==
    LET response(h) == Result(h.db, IF h.status = 200 THEN h.ret ELSE <<>>, FALSE)
    IN response(api_get_session_messages(d, session_id, fault))

api_client_add_message(d, session_id, message_data, fault) ==
    LET response(h) == Result(h.db, IF h.status = 200 THEN h.ret ELSE None, FALSE)
    IN response(api_add_message(d, session_id, message_data, fault))

api_client_delete_session(d, session_id, faults) ==
    LET response(h) == Result(h.db, IF h.status = 200 THEN Some(h.detail) ELSE None, FALSE)
    IN response(api_delete_session(d, session_id, faults))

api_client_get_all_sessions(d, fault) ==
    LET response(h) == Result(h.db, IF h.status = 200 THEN h.ret ELSE <<>>, FALSE)
    IN response(api_get_all_sessions(d, fault))

api_client_save_session_file(d, session_id, file_type, file_data, file_name, fault) ==
    LET response(h) == Result(h.db, IF h.status = 200 THEN h.ret ELSE None, FALSE)
    IN response(api_save_session_file(d, session_id,
                    [file_type |-> file_type, file_data |-> file_data, file_name |-> file_name],
                    fault))

api_client_get_session_file(d, session_id, file_type, fault) ==
    LET response(h) == Result(h.db, IF h.status = 200 THEN h.ret ELSE None, FALSE)
    IN response(api_get_session_file(d, session_id, file_type, fault))

api_client_csv_chat(a, dataframe, session_id, run) ==
    \* the dataframe travels as CSV text, which the endpoint parses again
    LET csv_data == to_csv(dataframe)
        response(h) ==
            IF h.status = 200 THEN [ai |-> h.ai, content |-> h.content.kind, plots |-> h.plots]
            ELSE [ai |-> h.ai, content |-> "API Error", plots |-> <<>>]
    IN response(chat_with_csv(a, [enhanced_query |-> "query",
                                  csv_data |-> FrameText(csv_data),
                                  session_id |-> session_id], run))

\* session_manager
save_session_file_data(d, session_id, file_type, file_data, file_name, fault) ==
    IF session_id = NoSession THEN Result(d, FALSE, FALSE)
    ELSE LET file_data_to_save ==
                 IF file_type = "csv_info"
                 THEN [file_type |-> "csv_info", metadata |-> file_data, has_full_data |-> FALSE]
                 ELSE IF file_type = "csv_data"
                 THEN [file_type |-> "csv_full", csv_string |-> file_data.csv_string,
                       rows |-> file_data.rows, file_name |-> file_data.file_name,
                       has_full_data |-> TRUE]
                 ELSE IF file_type = "image_info"
                 THEN [file_type |-> "image_info", metadata |-> file_data,
                       has_full_data |-> FALSE]
                 ELSE IF file_type = "image"
                 THEN [file_type |-> "image_base64", image_data |-> file_data,
                       has_full_data |-> TRUE]
                 ELSE file_data
             outcome(result) == Result(result.db, result.ret # None, FALSE)
         IN outcome(api_client_save_session_file(d, session_id, file_type, file_data_to_save,
                                                 file_name, fault))

load_session_file_data(d, session_id, file_type, fault) ==
    \* None, or <<what was stored, converted back>>
    IF session_id = NoSession THEN None
    ELSE LET convert(file_data) ==
                 IF file_type = "csv_info" /\ "metadata" \in DOMAIN file_data
                 THEN Some(file_data.metadata)
                 ELSE IF file_type = "csv_data" /\ "csv_string" \in DOMAIN file_data
                 THEN \* a text that pd.read_csv refuses is answered with None
                      IF "written" \in DOMAIN file_data.csv_string
                      THEN pd_read_csv(file_data.csv_string.written).df
                      ELSE Some(read_csv(file_data.csv_string))
                 ELSE IF file_type = "image_info" /\ "metadata" \in DOMAIN file_data
                 THEN Some(file_data.metadata)
                 ELSE IF file_type = "image" /\ "image_data" \in DOMAIN file_data
                 THEN Some(file_data.image_data)
                 ELSE Some(file_data)
             loaded(file_record) ==
                 IF file_record = None THEN None ELSE convert(file_record[1].file_data)
         IN loaded(api_client_get_session_file(d, session_id, file_type, fault).ret)

add_chat_to_sessions(w, chat_id, chat_name, faults) ==
    \* chat_id: the fresh uuid4; the id is returned whether or not the API call worked
    \* the local entry has no created_at: created_at is what .get("created_at", "")
    \* reads from it, 0 standing for the empty string, which sorts before every time
    LET u == [w.ui EXCEPT !.all_sessions = Put(@, chat_id, [name |-> chat_name,
                                                           mode |-> w.ui.current_mode,
                                                           created_at |-> 0]),
                          !.current_session = chat_id,
                          !.show_new_chat = FALSE]
        r == api_client_create_session(w.db,
                 [session_id |-> chat_id, name |-> chat_name, mode |-> w.ui.current_mode],
                 "create_session" \in faults)
    IN World(u, r.db, w.ai, chat_id)

create_new_chat(u) ==
    [u EXCEPT !.current_session = NoSession, !.show_new_chat = TRUE, !.current_messages = <<>>]

delete_chat_session(w, chat_id, faults) ==
    IF chat_id \in DOMAIN w.ui.all_sessions
    THEN LET removed(u1) == IF u1.current_session = chat_id THEN create_new_chat(u1) ELSE u1
             r == api_client_delete_session(w.db, chat_id, faults)
         IN World(removed([w.ui EXCEPT !.all_sessions = Remove(@, chat_id)]), r.db, w.ai, None)
    ELSE w

\* The items of the dict all_sessions come in insertion order: the
\* sessions loaded at start as the API listed them (newest first), then the
\* sessions added locally in the order of their creation, which is the order
\* in which uuid4 handed out their ids.
IdIndex(chat_id) == CHOOSE i \in 1..Len(IdOrder) : IdOrder[i] = chat_id

InsertionRank(all_sessions, chat_id) ==
    IF all_sessions[chat_id].created_at > 0 THEN 0 - all_sessions[chat_id].created_at
    ELSE IdIndex(chat_id)

RECURSIVE DictItems(_)
DictItems(all_sessions) ==
    IF DOMAIN all_sessions = {} THEN <<>>
    ELSE LET first == CHOOSE k \in DOMAIN all_sessions :
                          \A j \in DOMAIN all_sessions :
                              InsertionRank(all_sessions, k) <= InsertionRank(all_sessions, j)
         IN <<<<first, all_sessions[first]>>>> \o DictItems(Remove(all_sessions, first))

RECURSIVE DeleteAll(_, _, _)
DeleteAll(d, chat_ids, faults) ==
    \* the for loop of clear_all_chats
    IF chat_ids = <<>> THEN d
    ELSE DeleteAll(api_client_delete_session(d, Head(chat_ids), faults).db,
                   Tail(chat_ids), faults)

load_sessions_from_database(u, d, faults) ==
    LET loaded(db_sessions) ==
            IF db_sessions # <<>>
            THEN [u EXCEPT !.all_sessions =
                     [sid \in {db_sessions[i].session_id : i \in 1..Len(db_sessions)} |->
                         LET i == CHOOSE j \in 1..Len(db_sessions) : db_sessions[j].session_id = sid
                         IN [name |-> db_sessions[i].name, mode |-> db_sessions[i].mode,
                             created_at |-> db_sessions[i].created_at]]]
            ELSE u
    IN loaded(api_client_get_all_sessions(d, IF "get_sessions" \in faults THEN 1 ELSE 0).ret)

clear_all_chats(w, faults) ==
    World(create_new_chat([w.ui EXCEPT !.all_sessions = <<>>]),
          DeleteAll(w.db, [i \in 1..Len(DictItems(w.ui.all_sessions)) |->
                              DictItems(w.ui.all_sessions)[i][1]], faults),
          w.ai, None)

RECURSIVE AddMessages(_, _, _, _)
AddMessages(d, session_id, msgs, fault) ==
    \* the for loop of save_current_session
    IF msgs = <<>> THEN d
    ELSE AddMessages(api_client_add_message(d, session_id,
                         [role |-> Head(msgs).role, content |-> Head(msgs).content,
                          timestamp |-> Head(msgs).timestamp], fault).db,
                     session_id, Tail(msgs), fault)

save_current_session(w, db_messages, faults) ==
    IF w.ui.current_session = NoSession THEN w
    ELSE LET save_after(existing) ==
                 IF Len(db_messages) > Len(existing)
                 THEN World(w.ui,
                            AddMessages(w.db, w.ui.current_session,
                                        SubSeq(db_messages, Len(existing) + 1, Len(db_messages)),
                                        "add_message" \in faults),
                            w.ai, None)
                 ELSE w
         IN save_after(api_client_get_session_messages(w.db, w.ui.current_session,
                                                       "get_messages" \in faults).ret)

\* sidebar
RECURSIVE SortedByCreatedDesc(_)
SortedByCreatedDesc(items) ==
    \* sorted(items, key=created_at, reverse=True): stable, so items with equal
    \* keys keep the order they had
    IF items = <<>> THEN <<>>
    ELSE LET last == items[Len(items)]
             front == SortedByCreatedDesc(SubSeq(items, 1, Len(items) - 1))
             ahead == {i \in 1..Len(front) : front[i][2].created_at >= last[2].created_at}
         IN SubSeq(front, 1, Cardinality(ahead)) \o <<last>>
                \o SubSeq(front, Cardinality(ahead) + 1, Len(front))

get_sorted_sessions(u) ==
    \* [ui, ret]
    IF DOMAIN u.all_sessions = {} THEN [ui |-> u, ret |-> <<>>]
    ELSE IF /\ u.cached_sorted_sessions # None
            /\ u.cached_sorted_sessions_count = Cardinality(DOMAIN u.all_sessions)
    THEN [ui |-> u, ret |-> u.cached_sorted_sessions[1]]
    ELSE [ui |-> [u EXCEPT !.cached_sorted_sessions =
                               Some(SortedByCreatedDesc(DictItems(u.all_sessions))),
                           !.cached_sorted_sessions_count = Cardinality(DOMAIN u.all_sessions)],
          ret |-> SortedByCreatedDesc(DictItems(u.all_sessions))]

render_sidebar(u) ==
    \* the chat list is built only while there are chats
    IF DOMAIN u.all_sessions # {} THEN get_sorted_sessions(u).ui ELSE u

switch_mode_and_create_chat(u, new_mode) ==
    \* temp_df, temp_image_data and uploaded_image_name are dropped,
    \* temp_file_info is not among the keys reset
    [u EXCEPT !.current_mode = new_mode, !.current_session = NoSession,
              !.show_new_chat = TRUE, !.current_messages = <<>>, !.temp_df = None,
              !.temp_image_data = None, !.uploaded_image_name = None]

load_chat_session_fast(u, chat_id, chat_data) ==
    \* chat_data: the entry of the chat list whose button was pressed
    [u EXCEPT !.current_session = chat_id, !.show_new_chat = FALSE,
              !.current_mode = chat_data.mode]

\* csv_chat
Large(file_info) == file_info.size_mb >= StoreMaxMb \/ file_info.rows > StoreMaxRows

load_messages_from_api(u, d, session_id, faults) ==
    LET loaded(db_messages) ==
            IF db_messages # <<>>
            THEN [u EXCEPT !.current_messages = db_messages, !.last_session_id = session_id]
            ELSE [u EXCEPT !.current_messages = <<>>]
    IN loaded(api_client_get_session_messages(d, session_id, "get_messages" \in faults).ret)

display_chat_history(u, d, current_session_id, faults) ==
    IF current_session_id # NoSession
       /\ (u.current_messages = <<>> \/ u.last_session_id # current_session_id)
    THEN load_messages_from_api(u, d, current_session_id, faults)
    ELSE u

initialize_session_data(u, d, current_session_id, faults) ==
    IF current_session_id = NoSession \/ current_session_id \in DOMAIN u.session_data THEN u
    ELSE LET blank == [df |-> None, file_info |-> None, loaded |-> FALSE]
             with_data(file_info, full_data) ==
                 IF full_data # None
                 THEN [df |-> full_data, file_info |-> file_info, loaded |-> TRUE]
                 ELSE [blank EXCEPT !.file_info = file_info]
             entry(file_info) ==
                 IF file_info = None \/ ~file_info[1].has_keys THEN blank
                 ELSE IF Large(file_info[1]) THEN [blank EXCEPT !.file_info = file_info]
                 ELSE with_data(file_info,
                                load_session_file_data(d, current_session_id, "csv_data",
                                                       "get_csv_data" \in faults))
         IN [u EXCEPT !.session_data =
                Put(@, current_session_id,
                    entry(load_session_file_data(d, current_session_id, "csv_info",
                                                 "get_csv_info" \in faults)))]

get_current_dataframe(u, current_session_id) ==
    IF current_session_id # NoSession /\ current_session_id \in DOMAIN u.session_data
    THEN u.session_data[current_session_id].df
    ELSE u.temp_df

handle_csv_upload_section(u) ==
    \* whether the upload options are shown.  file_info.get on a file_info that
    \* is None raises; the except clause of the section then shows an error only
    LET cs == u.current_session
        file_info == IF cs # NoSession /\ cs \in DOMAIN u.session_data
                     THEN u.session_data[cs].file_info ELSE Some(EmptyDict)
    IN /\ file_info # None
       /\ get_current_dataframe(u, cs) = None
       /\ u.temp_df = None
       /\ ~Large(file_info[1])

handle_file_upload(u, uploaded_csv) ==
    IF uploaded_csv.size_mb > UploadMaxMb \/ uploaded_csv.size_mb = 0 THEN u
    ELSE LET new_df == read_csv(uploaded_csv.text)
         IN IF new_df.rows = 0 THEN u
            ELSE [u EXCEPT !.temp_df = Some(new_df),
                           !.temp_file_info = Some([has_keys |-> TRUE,
                                                    size_mb |-> uploaded_csv.size_mb,
                                                    rows |-> new_df.rows])]

get_full_dataframe(w, session_id, faults) ==
    LET u == w.ui
        loaded(full_data) ==
            IF full_data # None
            THEN World([u EXCEPT !.session_data[session_id].df = full_data],
                       w.db, w.ai, full_data)
            ELSE World(u, w.db, w.ai, get_current_dataframe(u, session_id))
        stored(session_data) ==
            IF session_data.df # None THEN World(u, w.db, w.ai, session_data.df)
            ELSE IF /\ session_data.file_info # None
                    /\ session_data.file_info[1].has_keys
                    /\ Large(session_data.file_info[1])
            THEN World(u, w.db, w.ai, None)
            ELSE loaded(load_session_file_data(w.db, session_id, "csv_data",
                                               "get_csv_data" \in faults))
    IN IF u.temp_df # None THEN World(u, w.db, w.ai, u.temp_df)
       ELSE IF session_id # NoSession /\ session_id \in DOMAIN u.session_data
       THEN stored(u.session_data[session_id])
       ELSE World(u, w.db, w.ai, get_current_dataframe(u, session_id))

\* save_csv_info_to_api with "or" where the code has "and"
save_csv_info_to_api_or(w, session_id, file_info, faults) ==
    LET full_df == w.ui.temp_df
        file_data_to_save == [file_type |-> "csv_data",
                              csv_string |-> to_csv(full_df[1]),
                              rows |-> full_df[1].rows,
                              file_name |-> "csv"]
        info_saved(d1) ==
            IF full_df # None /\ (file_info.size_mb < StoreMaxMb \/ file_info.rows <= StoreMaxRows)
            THEN World(w.ui,
                       save_session_file_data(d1, session_id, "csv_data", file_data_to_save,
                                              "csv_data", "save_csv_data" \in faults).db,
                       w.ai, None)
            ELSE World(w.ui, d1, w.ai, None)
    IN info_saved(save_session_file_data(w.db, session_id, "csv_info", file_info, "csv_info",
                                         "save_csv_info" \in faults).db)

save_csv_info_to_api(w, session_id, file_info, faults) ==
    LET full_df == w.ui.temp_df
        file_data_to_save == [file_type |-> "csv_data",
                              csv_string |-> to_csv(full_df[1]),
                              rows |-> full_df[1].rows,
                              file_name |-> "csv"]
        info_saved(d1) ==
            IF full_df # None /\ file_info.size_mb < StoreMaxMb /\ file_info.rows <= StoreMaxRows
            THEN World(w.ui,
                       save_session_file_data(d1, session_id, "csv_data", file_data_to_save,
                                              "csv_data", "save_csv_data" \in faults).db,
                       w.ai, None)
            ELSE World(w.ui, d1, w.ai, None)
    IN info_saved(save_session_file_data(w.db, session_id, "csv_info", file_info, "csv_info",
                                         "save_csv_info" \in faults).db)

cleanup_temp_data(u) == [u EXCEPT !.temp_df = None, !.temp_file_info = None]

create_new_session(w, chat_id, user_input, display_df, faults) ==
    LET file_info == IF w.ui.temp_file_info # None THEN w.ui.temp_file_info[1] ELSE EmptyDict
        entry == [df |-> display_df, file_info |-> Some(file_info), loaded |-> TRUE]
        saved(w1) ==
            save_csv_info_to_api(
                World([w1.ui EXCEPT !.current_session = chat_id,
                                    !.show_new_chat = FALSE,
                                    !.current_messages = <<>>,
                                    !.session_data = Put(@, chat_id, entry)],
                      w1.db, w1.ai, None),
                chat_id, file_info, faults)
        cleaned(w3) == World(cleanup_temp_data(w3.ui), w3.db, w3.ai, chat_id)
    IN cleaned(saved(add_chat_to_sessions(w, chat_id, "CSV", faults)))

ensure_session_exists(w, chat_id, user_input, current_session_id, display_df, faults) ==
    IF current_session_id = NoSession \/ w.ui.show_new_chat
    THEN create_new_session(w, chat_id, user_input, display_df, faults)
    ELSE World(w.ui, w.db, w.ai, current_session_id)

update_chat_history(w, user_input, ai_response, t, faults) ==
    LET capped(added) == IF Len(added) > HistoryCap
                         THEN SubSeq(added, Len(added) - HistoryCap + 1, Len(added))
                         ELSE added
        saved(new_messages) ==
            save_current_session(World([w.ui EXCEPT !.current_messages = new_messages],
                                       w.db, w.ai, None),
                                 new_messages, faults)
    IN saved(capped(w.ui.current_messages \o
                    <<[role |-> "user", content |-> user_input, timestamp |-> 2 * t + 1],
                      [role |-> "assistant", content |-> ai_response,
                       timestamp |-> 2 * t + 2]>>))

generate_ai_response(w, user_input, session_id, t, faults, run) ==
    LET answered(g, api_response) ==
            update_chat_history(World(g.ui, g.db, api_response.ai, None),
                                user_input, api_response.content, t, faults)
        analysed(g) ==
            IF g.ret = None
            THEN update_chat_history(g, user_input, "no access", t, faults)
            ELSE answered(g, api_client_csv_chat(g.ai, g.ret[1], session_id, run))
    IN analysed(get_full_dataframe(w, session_id, faults))

\* the validation at the head of _process_user_message, without its check
\* for a large file session
validate_user_message_unchecked(u, user_input) ==
    IF get_current_dataframe(u, u.current_session) = None
    THEN "Please upload a CSV file first"
    ELSE IF StrippedLen(user_input) = 0 THEN "Please enter a question"
    ELSE IF StrippedLen(user_input) > PageMaxChars THEN "Question too long"
    ELSE ""

validate_user_message(u, user_input) ==
    \* the validation at the head of _process_user_message: the error shown to
    \* the user, "" if the message passes
    LET current_session_id == u.current_session
        display_df == get_current_dataframe(u, current_session_id)
        file_info == IF current_session_id # NoSession
                        /\ current_session_id \in DOMAIN u.session_data
                     THEN u.session_data[current_session_id].file_info ELSE None
    IN IF file_info # None /\ file_info[1].has_keys /\ Large(file_info[1]) /\ display_df = None
       THEN "Large file limitation: create a new chat and re-upload the file"
       ELSE IF display_df = None THEN "Please upload a CSV file first"
       ELSE IF StrippedLen(user_input) = 0 THEN "Please enter a question"
       ELSE IF StrippedLen(user_input) > PageMaxChars THEN "Question too long"
       ELSE ""

process_user_message(w, chat_id, user_input, t, faults, run) ==
    \* ret: [session: the session the message went to, NoSession if the message
    \* was refused, notice: the error shown to the user]
    LET sent(done, session_id) ==
            World(done.ui, done.db, done.ai, [session |-> session_id, notice |-> ""])
        answered(e) == sent(generate_ai_response(e, user_input, e.ret, t, faults, run), e.ret)
    IN IF validate_user_message(w.ui, user_input) # ""
       THEN World(w.ui, w.db, w.ai,
                  [session |-> NoSession, notice |-> validate_user_message(w.ui, user_input)])
       ELSE answered(ensure_session_exists(w, chat_id, user_input, w.ui.current_session,
                                           get_current_dataframe(w.ui, w.ui.current_session),
                                           faults))

(***************************************************************************)
(* The image page.  An uploaded file is [name, size_mb]; its bytes are     *)
(* [name, size_mb: the size of the file they were read from, compressed];  *)
(* the base64 text of bytes b is [base64 |-> b].  A session_data entry of  *)
(* an image session is [image_data, file_info, loaded].  reply is the text *)
(* the streaming call ends with: the model's answer or a fallback text.    *)
(***************************************************************************)
compress_image_data(image_bytes) == [image_bytes EXCEPT !.compressed = TRUE]

b64encode(image_bytes) == [base64 |-> image_bytes]

initialize_image_session_data(u, d, current_session_id, faults) ==
    IF current_session_id = NoSession \/ current_session_id \in DOMAIN u.session_data THEN u
    ELSE LET restored(file_info) ==
                 IF file_info # None /\ file_info[1].has_keys
                 THEN [u EXCEPT !.session_data =
                          Put(@, current_session_id,
                              [file_info |-> file_info, loaded |-> TRUE,
                               image_data |-> load_session_file_data(d, current_session_id,
                                                  "image", "get_image" \in faults)])]
                 ELSE u
         IN restored(load_session_file_data(d, current_session_id, "image_info",
                                            "get_image_info" \in faults))

get_current_image_data(u, current_session_id) ==
    IF u.temp_image_data # None THEN u.temp_image_data
    ELSE IF current_session_id # NoSession /\ current_session_id \in DOMAIN u.session_data
    THEN u.session_data[current_session_id].image_data
    ELSE None

get_image_data_for_analysis(u, session_id) == get_current_image_data(u, session_id)

\* _show_image_uploader without its size check
show_image_uploader_unchecked(u, uploaded_image) ==
    IF uploaded_image.size_mb = 0 THEN u
    ELSE [u EXCEPT !.temp_image_data =
                       Some(b64encode([name |-> uploaded_image.name,
                                       size_mb |-> uploaded_image.size_mb,
                                       compressed |-> uploaded_image.size_mb > CompressAboveMb])),
                   !.temp_file_info = Some([has_keys |-> TRUE,
                                            size_mb |-> uploaded_image.size_mb, rows |-> 0]),
                   !.uploaded_image_name = Some(uploaded_image.name)]

show_image_uploader(u, uploaded_image) ==
    \* the file the user put into the uploader; the session state afterwards
    LET file_size == uploaded_image.size_mb
        image_bytes == [name |-> uploaded_image.name, size_mb |-> file_size,
                        compressed |-> FALSE]
        encoded_image == b64encode(IF file_size > CompressAboveMb
                                   THEN compress_image_data(image_bytes) ELSE image_bytes)
    IN IF file_size > ImageMaxMb THEN u
       ELSE IF file_size = 0 THEN u
       ELSE [u EXCEPT !.temp_image_data = Some(encoded_image),
                      \* rows: what .get('rows', 0) reads from this dict
                      !.temp_file_info = Some([has_keys |-> TRUE, size_mb |-> file_size,
                                               rows |-> 0]),
                      !.uploaded_image_name = Some(uploaded_image.name)]

save_image_info_to_api(d, session_id, file_info, faults) ==
    save_session_file_data(d, session_id, "image_info", file_info, "image_info",
                           "save_image_info" \in faults).db

cleanup_temp_image_data(u) ==
    [u EXCEPT !.temp_image_data = None, !.temp_file_info = None, !.uploaded_image_name = None]

create_new_image_session(w, chat_id, user_input, faults) ==
    LET file_info(u) == IF u.temp_file_info # None THEN u.temp_file_info[1] ELSE EmptyDict
        stored(u, d1) ==
            World(cleanup_temp_image_data(
                      [u EXCEPT !.session_data =
                          Put(@, chat_id, [image_data |-> u.temp_image_data,
                                           file_info |-> Some(file_info(u)),
                                           loaded |-> TRUE])]),
                  save_session_file_data(d1, chat_id, "image", u.temp_image_data[1], "image",
                                         "save_image" \in faults).db,
                  w.ai, chat_id)
        created(u, d) ==
            IF u.temp_image_data = None THEN World(u, d, w.ai, chat_id)
            ELSE stored(u, save_image_info_to_api(d, chat_id, file_info(u), faults))
        added(w1) ==
            created([w1.ui EXCEPT !.current_session = chat_id, !.show_new_chat = FALSE,
                                  !.current_messages = <<>>],
                    w1.db)
    IN added(add_chat_to_sessions(w, chat_id, "Image", faults))

image_ensure_session_exists(w, chat_id, user_input, current_session_id, faults) ==
    IF current_session_id = NoSession \/ w.ui.show_new_chat
    THEN create_new_image_session(w, chat_id, user_input, faults)
    ELSE World(w.ui, w.db, w.ai, current_session_id)

image_update_chat_history(w, user_input, ai_response, t, faults) ==
    LET capped(added) == IF Len(added) > ImageHistoryCap
                         THEN SubSeq(added, Len(added) - ImageHistoryCap + 1, Len(added))
                         ELSE added
        saved(new_messages) ==
            save_current_session(World([w.ui EXCEPT !.current_messages = new_messages],
                                       w.db, w.ai, None),
                                 new_messages, faults)
    IN saved(capped(w.ui.current_messages \o
                    <<[role |-> "user", content |-> user_input, timestamp |-> 2 * t + 1],
                      [role |-> "assistant", content |-> ai_response,
                       timestamp |-> 2 * t + 2]>>))

image_generate_ai_response(w, user_input, session_id, t, faults, reply) ==
    IF get_image_data_for_analysis(w.ui, session_id) = None
    THEN image_update_chat_history(w, user_input, "no access", t, faults)
    ELSE image_update_chat_history(w, user_input, reply, t, faults)

\* the validation of the image page with the length check left out
image_validate_user_message_unchecked(user_input) ==
    IF StrippedLen(user_input) = 0 THEN "Please enter a question about the image" ELSE ""

image_validate_user_message(user_input) ==
    \* the validation at the head of _process_user_message
    IF StrippedLen(user_input) = 0 THEN "Please enter a question about the image"
    ELSE IF StrippedLen(user_input) > PageMaxChars THEN "Question too long"
    ELSE ""

image_process_user_message(w, chat_id, user_input, t, faults, reply) ==
    LET sent(done, session_id) ==
            World(done.ui, done.db, done.ai, [session |-> session_id, notice |-> ""])
        answered(e) ==
            sent(image_generate_ai_response(e, user_input, e.ret, t, faults, reply), e.ret)
    IN IF image_validate_user_message(user_input) # ""
       THEN World(w.ui, w.db, w.ai,
                  [session |-> NoSession, notice |-> image_validate_user_message(user_input)])
       ELSE answered(image_ensure_session_exists(w, chat_id, user_input,
                                                 w.ui.current_session, faults))

(***************************************************************************)
(* The core page.                                                          *)
(***************************************************************************)
\* _ensure_session_exists that opens a session for every message
core_ensure_session_exists_always(w, chat_id, user_input, current_session_id, faults) ==
    IF chat_id = NoSession THEN World(w.ui, w.db, w.ai, current_session_id)
    ELSE World([add_chat_to_sessions(w, chat_id, "chat", faults).ui
                    EXCEPT !.current_messages = <<>>],
               add_chat_to_sessions(w, chat_id, "chat", faults).db, w.ai, chat_id)

core_ensure_session_exists(w, chat_id, user_input, current_session_id, faults) ==
    LET added(w1) ==
            World([w1.ui EXCEPT !.current_session = chat_id, !.show_new_chat = FALSE,
                                !.current_messages = <<>>],
                  w1.db, w1.ai, chat_id)
    IN IF current_session_id = NoSession \/ w.ui.show_new_chat
       THEN added(add_chat_to_sessions(w, chat_id, "chat", faults))
       ELSE World(w.ui, w.db, w.ai, current_session_id)

core_update_chat_history(w, user_input, ai_response, t, faults) ==
    LET capped(added) == IF Len(added) > HistoryCap
                         THEN SubSeq(added, Len(added) - HistoryCap + 1, Len(added))
                         ELSE added
        saved(new_messages) ==
            save_current_session(World([w.ui EXCEPT !.current_messages = new_messages],
                                       w.db, w.ai, None),
                                 new_messages, faults)
    IN saved(capped(w.ui.current_messages \o
                    <<[role |-> "user", content |-> user_input, timestamp |-> 2 * t + 1],
                      [role |-> "assistant", content |-> ai_response,
                       timestamp |-> 2 * t + 2]>>))

core_generate_ai_response(w, user_input, session_id, t, faults, reply) ==
    core_update_chat_history(w, user_input, reply, t, faults)

core_validate_user_message(user_input) ==
    IF StrippedLen(user_input) = 0 THEN "Please enter a message"
    ELSE IF StrippedLen(user_input) > CoreMaxChars THEN "Message too long"
    ELSE ""

core_process_user_message(w, chat_id, user_input, t, faults, reply) ==
    LET sent(done, session_id) ==
            World(done.ui, done.db, done.ai, [session |-> session_id, notice |-> ""])
        answered(e) ==
            sent(core_generate_ai_response(e, user_input, e.ret, t, faults, reply), e.ret)
    IN IF core_validate_user_message(user_input) # ""
       THEN World(w.ui, w.db, w.ai,
                  [session |-> NoSession, notice |-> core_validate_user_message(user_input)])
       ELSE answered(core_ensure_session_exists(w, chat_id, user_input,
                                                w.ui.current_session, faults))

Render(u, d, faults) ==
    \* one run of the script: main.py, then the page of the current mode
    LET page(u1) == IF ~(u1.show_new_chat \/ u1.current_session = NoSession)
                    THEN display_chat_history(u1, d, u1.current_session, faults) ELSE u1
        sidebar == render_sidebar(u)
    IN page(IF u.current_mode = "csv"
            THEN initialize_session_data(sidebar, d, u.current_session, faults)
            ELSE IF u.current_mode = "image"
            THEN initialize_image_session_data(sidebar, d, u.current_session, faults)
            ELSE sidebar)

Restores(u) ==
    \* the session whose data this run of the script restores from the store
    IF u.current_mode = "csv" /\ u.current_session # NoSession
       /\ u.current_session \notin DOMAIN u.session_data
    THEN u.current_session ELSE NoSession

UiOp(op, sid, restored, faults) ==
    \* restored: the session this event restored; clean: no store call failed;
    \* sent: the event was a message; for a message: session (the session
    \* current when it was sent), notice (the error shown), went (it was
    \* processed), kept (processing it left session state, store and AI service
    \* as they were), analysed (the image sent to the backend with it)
    \* file_type, loaded: of a load_session_file_data and what it returned
    [sent |-> op = "send", restored |-> restored, clean |-> faults = {},
     session |-> IF op = "send" THEN sid ELSE NoSession,
     notice |-> "", went |-> FALSE, kept |-> TRUE, image_mb |-> 0, analysed |-> None,
     file_type |-> "", loaded |-> None]

NoUiOp == UiOp("none", NoSession, NoSession, {})

(***************************************************************************)
(* The backend's event loop (uvicorn.run(app): one process, one loop) and  *)
(* the /ai/chat/csv requests it has accepted.  A request is at a position  *)
(* of its handler: "none" (not sent), "queued" (accepted, handler not      *)
(* started), "run" (inside agent.run), "get_plots", "clear_plots", "done". *)
(* The loop runs one coroutine until it awaits or returns; AwaitPoints are *)
(* the positions at which chat_with_csv awaits.  The handler has no await, *)
(* and generate_csv_response and agent.run are synchronous calls.  A       *)
(* figure carries the request whose agent produced it.                     *)
(***************************************************************************)
ReqIds == {1, 2}

\* a handler that awaits the agent (await agent.arun) and the plot list
AwaitPoints_in_run == {"run", "get_plots"}

AwaitPoints == {}

FigOf(r) == IF r = 1 THEN "fig1" ELSE "fig2"

NoRequest ==
    [pc |-> "none", sid |-> NoSession, data |-> NoFrame, todo |-> <<>>, made |-> <<>>,
     plots |-> <<>>]

NewLoop == [running |-> 0, req |-> [r \in ReqIds |-> NoRequest], overlapped |-> FALSE]

InFlight(q) == q.pc \notin {"none", "done"}

\* the loop may run a step of request r
Scheduled(l, r) == l.running = r \/ (l.running = 0 /\ InFlight(l.req[r]))

\* the request r has moved to position pc: the loop keeps running it unless it
\* has returned or awaits there
Moved(l, r, pc) ==
    [l EXCEPT !.req[r].pc = pc,
              !.running = IF pc = "done" \/ pc \in AwaitPoints THEN 0 ELSE r]

(***************************************************************************)
(* State after construction: an empty store, no request answered yet.      *)
(***************************************************************************)
EmptyDb ==
    [chat_sessions |-> <<>>, chat_messages |-> <<>>, session_files |-> <<>>]

Answer(op, sid, existed, fault, raised, h, old) ==
    \* what the last request was and how it ended: existed = the session had a
    \* row when the request arrived, fault = a store call of the request raised,
    \* raised = the repository method let the exception out to its caller
    [op |-> op, sid |-> sid, existed |-> existed, fault |-> fault, raised |-> raised,
     status |-> h.status, null |-> h.ret = None, changed |-> h.db # old]

NoAnswer ==
    [op |-> "none", sid |-> "", existed |-> FALSE, fault |-> FALSE, raised |-> FALSE,
     status |-> 0, null |-> TRUE, changed |-> FALSE]

Constructed ==
    /\ db = EmptyDb
    /\ used = {}
    /\ resp = NoAnswer
    /\ deletedOk = {}
    /\ ai = NewAIService
    /\ aiLast = NoCall
    /\ loop = NewLoop
    /\ stream = NoStream
    /\ ui = NewSessionState
    /\ now = 0
    /\ origin = <<>>
    /\ uiLast = NoUiOp

Init == client \in BOOLEAN /\ Constructed

InitConfigured == client = TRUE /\ Constructed

(***************************************************************************)
(* One action per HTTP request of the session/message/file API.            *)
(***************************************************************************)
PostSession ==
    \E sid \in SessionIds \ used, mode \in StoreModes, fault \in BOOLEAN :
        LET h == api_create_session(db, [session_id |-> sid, name |-> "chat", mode |-> mode], fault)
        IN /\ db' = h.db
           /\ used' = used \cup {sid}
           /\ resp' = Answer("create_session", sid, FALSE, client /\ fault, h.unhandled, h, db)
           /\ UNCHANGED <<client, deletedOk, aiVars, stream, uiVars>>

PostMessage ==
    \E sid \in SessionIds, role \in StoreRoles, ts \in Timestamps, fault \in BOOLEAN :
        LET h == api_add_message(db, sid, [role |-> role, content |-> "text", timestamp |-> ts], fault)
        IN /\ Len(db.chat_messages) < MaxMessages
           /\ db' = h.db
           /\ resp' = Answer("add_message", sid, SessionExists(db, sid), client /\ fault,
                             h.unhandled, h, db)
           /\ deletedOk' = IF h.db # db THEN deletedOk \ {sid} ELSE deletedOk
           /\ UNCHANGED <<client, used, aiVars, stream, uiVars>>

GetMessages ==
    \E sid \in SessionIds, fault \in BOOLEAN :
        LET h == api_get_session_messages(db, sid, fault)
        IN /\ db' = h.db
           /\ resp' = Answer("get_session_messages", sid, SessionExists(db, sid),
                             client /\ fault, h.unhandled, h, db)
           /\ UNCHANGED <<client, used, deletedOk, aiVars, stream, uiVars>>

GetSessions ==
    \E fault \in 0..2 :
        LET h == api_get_all_sessions(db, fault)
        IN /\ db' = h.db
           /\ resp' = Answer("get_all_sessions", "", FALSE, h.unhandled, h.unhandled, h, db)
           /\ UNCHANGED <<client, used, deletedOk, aiVars, stream, uiVars>>

DeleteSession ==
    \E sid \in SessionIds, faults \in SUBSET {"files", "messages", "session"} :
        LET h == api_delete_session(db, sid, faults)
        IN /\ db' = h.db
           /\ resp' = Answer("delete_session", sid, SessionExists(db, sid),
                             client /\ faults # {}, FALSE, h, db)
           /\ deletedOk' = IF SessionExists(db, sid) /\ h.status = 200
                            THEN deletedOk \cup {sid} ELSE deletedOk
           /\ UNCHANGED <<client, used, aiVars, stream, uiVars>>

PostFileUpTo(max) ==
    \* POST /sessions/{id}/files while the table holds fewer than max rows
    \E sid \in SessionIds, ft \in FileTypes, fault \in BOOLEAN :
        LET h == api_save_session_file(db, sid,
                    [file_type |-> ft, file_data |-> [blob |-> "data"], file_name |-> "f"], fault)
        IN /\ Len(db.session_files) < max
           /\ db' = h.db
           /\ resp' = Answer("save_session_file", sid, SessionExists(db, sid),
                             client /\ fault, FALSE, h, db)
           /\ deletedOk' = IF h.db # db THEN deletedOk \ {sid} ELSE deletedOk
           /\ UNCHANGED <<client, used, aiVars, stream, uiVars>>

PostFile == PostFileUpTo(MaxFiles)

GetFile ==
    \E sid \in SessionIds, ft \in FileTypes, fault \in BOOLEAN :
        LET h == api_get_session_file(db, sid, ft, fault)
        IN /\ db' = h.db
           /\ resp' = Answer("get_session_file", sid, SessionExists(db, sid),
                             client /\ fault, FALSE, h, db)
           /\ UNCHANGED <<client, used, deletedOk, aiVars, stream, uiVars>>

Next ==
    \/ PostSession
    \/ PostMessage
    \/ GetMessages
    \/ GetSessions
    \/ DeleteSession
    \/ PostFile
    \/ GetFile

Spec == Init /\ [][Next]_vars

(***************************************************************************)
(* The session-file requests alone, with room for a second file row.       *)
(***************************************************************************)
PostFileAgain == PostFileUpTo(MaxSaves)

NextFiles ==
    \/ PostSession
    \/ PostFileAgain
    \/ GetFile
    \/ DeleteSession

SpecFiles == Init /\ [][NextFiles]_vars

(***************************************************************************)
(* The AIService methods of the CSV mode, called one at a time, and the    *)
(* endpoint that calls them in its fixed order.                            *)
(***************************************************************************)
GenerateCsvResponse ==
    \E sid \in SessionIds \cup {NoSession}, df \in {None} \cup {Some(x) : x \in DataFrames},
       run \in Runs :
        LET g == generate_csv_response(ai, df, sid, run)
        IN /\ ai' = g.ai
           /\ aiLast' = [Call("generate_csv_response", sid, <<>>, g.raised)
                            EXCEPT !.data = df, !.answer = g.ret]
           /\ UNCHANGED <<storeVars, stream, uiVars, loop>>

PlotChart ==
    \* a cached agent calls its plotting tool
    \E sid \in DOMAIN ai.agents, data \in PlotInputs :
        /\ Len(get_plots(ai, sid)) < MaxPlots
        /\ ai' = plotChart(ai, sid, data)
        /\ aiLast' = Call("plotChart", sid, <<>>, FALSE)
        /\ UNCHANGED <<storeVars, stream, uiVars, loop>>

GetPlots ==
    \E sid \in SessionIds \cup {NoSession} :
        /\ ai' = ai
        /\ aiLast' = Call("get_plots", sid, get_plots(ai, sid), FALSE)
        /\ UNCHANGED <<storeVars, stream, uiVars, loop>>

ClearPlots ==
    \E sid \in SessionIds \cup {NoSession} :
        /\ ai' = clear_plots(ai, sid)
        /\ aiLast' = Call("clear_plots", sid, <<>>, FALSE)
        /\ UNCHANGED <<storeVars, stream, uiVars, loop>>

ChatWithCsvFrom(ids, payloads, runs) ==
    \* a request with a session id of ids, a csv_data of payloads, met by an agent
    \* that behaves as one of runs
    \E sid \in ids, q \in {"", "query"}, csv_data \in payloads, run \in runs :
        \E h \in {chat_with_csv(ai, [enhanced_query |-> q, csv_data |-> csv_data,
                                     session_id |-> sid], run)} :
           /\ ai' = h.ai
           /\ aiLast' = [Call("chat_with_csv", sid, h.plots, h.status # 200)
                            EXCEPT !.data = h.df, !.answer = h.content,
                                   !.csv_data = csv_data, !.query = q,
                                   !.status = h.status, !.agent_ran = h.agent_ran,
                                   !.calls = IF h.agent_ran THEN run.plots ELSE <<>>]
           /\ UNCHANGED <<storeVars, stream, uiVars, loop>>

ChatWithCsv == ChatWithCsvFrom(SessionIds \cup {NoSession}, ServicePayloads, Runs)

NextCsvService ==
    \/ GenerateCsvResponse
    \/ PlotChart
    \/ GetPlots
    \/ ClearPlots
    \/ ChatWithCsv

SpecCsvService == InitConfigured /\ [][NextCsvService]_vars

(***************************************************************************)
(* The backend process as a whole for the per-session maps: sessions are   *)
(* created and deleted through the session API while CSV requests build    *)
(* agents and plot lists under the same ids.                               *)
(***************************************************************************)
ChatWithCsvSession ==
    ChatWithCsvFrom(SessionIds, {JsonNull, Json("str", TwoByTwo)},
                    [create_fails : BOOLEAN, plots : {<<>>, <<"fig">>}, raises : {FALSE}])

NextCsvSessions ==
    \/ PostSession
    \/ DeleteSession
    \/ ChatWithCsvSession
    \/ PlotChart
    \/ ClearPlots

SpecCsvSessions == InitConfigured /\ [][NextCsvSessions]_vars

(***************************************************************************)
(* POST /ai/chat/csv with every kind of csv_data, for one session id and   *)
(* for no session id.                                                      *)
(***************************************************************************)
ChatWithCsvData ==
    ChatWithCsvFrom({IdOrder[1], NoSession}, CsvPayloads,
                    [create_fails : BOOLEAN, plots : {<<"fig">>}, raises : BOOLEAN])

NextCsvData == ChatWithCsvData

SpecCsvData == InitConfigured /\ [][NextCsvData]_vars

(***************************************************************************)
(* POST /ai/chat/csv, one request after the other, for two session ids and *)
(* for no session id, with and without a dataset, met by an agent that     *)
(* draws up to MaxPlots figures of two kinds.                              *)
(***************************************************************************)
FigureInputs == {"fig", "fig 2", "not json"}

ChatWithCsvPlots ==
    ChatWithCsvFrom({IdOrder[1], IdOrder[2], NoSession}, {JsonNull, Json("str", TwoByTwo)},
                    [create_fails : BOOLEAN, plots : SeqsUpTo(FigureInputs, MaxPlots),
                     raises : BOOLEAN])

NextCsvPlots == ChatWithCsvPlots

SpecCsvPlots == InitConfigured /\ [][NextCsvPlots]_vars

(***************************************************************************)
(* POST /ai/chat and POST /ai/chat/image.  The handler returns a           *)
(* StreamingResponse over generate(); the framework then pulls one         *)
(* fragment at a time.  upstream is what the model will produce and        *)
(* fail_at = k > 0 says that the model raises when its k-th chunk is       *)
(* requested.  Neither generate_text_response, generate_image_response nor *)
(* generate() has a try block, and the handler's own try block has been    *)
(* left by the time the body is iterated.                                  *)
(***************************************************************************)
StartStream(mode, chunks, k) ==
    [mode |-> mode, upstream |-> chunks, fail_at |-> k, pos |-> 0, emitted |-> <<>>,
     state |-> "streaming"]

ChatWithAi ==
    \E chunks \in SeqsUpTo(StubChunks, MaxChunks) :
        \E k \in 0..(Len(chunks) + 1) :
            /\ stream.state # "streaming"
            /\ stream' = StartStream("text", chunks, k)
            /\ UNCHANGED <<storeVars, aiVars, uiVars>>

ChatWithImage ==
    \E chunks \in SeqsUpTo(StubChunks, MaxChunks) :
        \E k \in 0..(Len(chunks) + 1) :
            /\ stream.state # "streaming"
            /\ stream' = StartStream("image", chunks, k)
            /\ UNCHANGED <<storeVars, aiVars, uiVars>>

RelayChunk ==
    /\ stream.state = "streaming"
    /\ stream.pos < Len(stream.upstream)
    /\ stream.fail_at # stream.pos + 1
    /\ stream' = [stream EXCEPT !.pos = @ + 1,
                                !.emitted = Append(@, Fragment(stream.upstream[stream.pos + 1]))]
    /\ UNCHANGED <<storeVars, aiVars, uiVars>>

StreamEnds ==
    /\ stream.state = "streaming"
    /\ stream.pos = Len(stream.upstream)
    /\ stream.fail_at # stream.pos + 1
    /\ stream' = [stream EXCEPT !.state = "done"]
    /\ UNCHANGED <<storeVars, aiVars, uiVars>>

ModelRaises ==
    /\ stream.state = "streaming"
    /\ stream.fail_at = stream.pos + 1
    /\ stream' = [stream EXCEPT !.state = "raised"]
    /\ UNCHANGED <<storeVars, aiVars, uiVars>>

NextStream ==
    \/ ChatWithAi
    \/ ChatWithImage
    \/ RelayChunk
    \/ StreamEnds
    \/ ModelRaises

SpecStream == InitConfigured /\ [][NextStream]_vars

(***************************************************************************)
(* The UI client, one action per user event.  A button's handler ends with *)
(* st.rerun(), so its action is the handler followed by one run of the     *)
(* script (Render); a chat input is handled at the end of the run of the   *)
(* script that it triggers.  Of the core page only the history display is  *)
(* modelled; messages are sent from the CSV page.                          *)
(***************************************************************************)
OpenApp ==
    \* a new browser session: fresh st.session_state, first run of the script
    \E faults \in FaultsOf({"get_sessions"}) :
        \E u1 \in {load_sessions_from_database(NewSessionState, db, faults)} :
           /\ ui' = Render(u1, db, faults)
           /\ uiLast' = UiOp("open", NoSession, Restores(u1), faults)
           /\ UNCHANGED <<storeVars, aiVars, stream, now, origin>>

SwitchModeAmong(modes) ==
    \* a mode button of the sidebar, out of the pages in modes
    \E new_mode \in modes \ {ui.current_mode}, faults \in {{}} :
        LET u1 == switch_mode_and_create_chat(ui, new_mode)
        IN /\ ui' = Render(u1, db, faults)
           /\ uiLast' = UiOp("switch_mode", NoSession, Restores(u1), faults)
           /\ UNCHANGED <<storeVars, aiVars, stream, now, origin>>

SwitchMode == SwitchModeAmong(UiModes)

NewChat ==
    \E faults \in {{}} :
        LET u1 == create_new_chat(ui)
        IN /\ ui' = Render(u1, db, faults)
           /\ uiLast' = UiOp("new_chat", NoSession, Restores(u1), faults)
           /\ UNCHANGED <<storeVars, aiVars, stream, now, origin>>

LoadChatWith(sites) ==
    \* a chat that exists is opened from the sidebar; sites: the store calls that
    \* can fail
    \E chat_id \in DOMAIN ui.all_sessions, faults \in FaultsOf(sites) :
        \* the chat list is rendered before the button's handler runs
        LET u1 == load_chat_session_fast(render_sidebar(ui), chat_id,
                                         ui.all_sessions[chat_id])
        IN /\ ui' = Render(u1, db, faults)
           /\ uiLast' = UiOp("load_chat", chat_id, Restores(u1), faults)
           /\ UNCHANGED <<storeVars, aiVars, stream, now, origin>>

LoadChat == LoadChatWith(RenderSites)

DeleteChat ==
    \E chat_id \in DOMAIN ui.all_sessions, faults \in FaultsOf(DeleteSites \cup {"get_messages"}) :
        \E w \in {delete_chat_session(World(render_sidebar(ui), db, ai, None), chat_id,
                                      faults \cap DeleteSites)} :
           /\ ui' = Render(w.ui, w.db, faults)
           /\ db' = w.db
           /\ origin' = IF chat_id \in DOMAIN origin
                        THEN [origin EXCEPT ![chat_id].deleted = TRUE] ELSE origin
           /\ uiLast' = UiOp("delete_chat", chat_id, Restores(w.ui), faults)
           /\ UNCHANGED <<client, used, resp, deletedOk, aiVars, stream, now>>

UploadCsv ==
    \E size \in UploadSizes, rows \in UploadRows, table \in UploadTables,
       faults \in FaultsOf({"get_messages"}) :
        LET uploaded_csv == [size_mb |-> size, text |-> [header |-> table, lines |-> rows]]
            u1 == handle_file_upload(ui, uploaded_csv)
        IN /\ ui.current_mode = "csv"
           /\ handle_csv_upload_section(ui)
           /\ ui' = IF u1 # ui THEN Render(u1, db, faults) ELSE ui
           /\ uiLast' = UiOp("upload", NoSession, NoSession, faults)
           /\ UNCHANGED <<storeVars, aiVars, stream, now, origin>>

SendMessage ==
    /\ ui.current_mode = "csv"
    /\ \E user_input \in UserInputs,
          faults \in FaultsOf(SendSites \cup {"get_messages", "get_csv_data"}) :
        \E u0 \in {Render(ui, db, faults)} :
          \* chat_id: the uuid4 of the session, if one is created; what the agent
          \* does only matters for a message that reaches it
          \E chat_id \in IF u0.current_session = NoSession \/ u0.show_new_chat
                         THEN uuid4(used) ELSE {NoSession},
             run \in IF user_input = "question" THEN UiRuns ELSE {CHOOSE r \in UiRuns : TRUE} :
            /\ validate_user_message(u0, user_input) = "" => now < MaxTurns
            /\ \E w \in {process_user_message(World(u0, db, ai, None), chat_id, user_input,
                                              now, faults, run)} :
                 /\ ui' = w.ui
                 /\ db' = w.db
                 /\ ai' = w.ai
                 /\ used' = IF w.ret.session # NoSession /\ w.ret.session = chat_id
                            THEN used \cup {chat_id} ELSE used
                 /\ now' = IF w.ret.session # NoSession THEN now + 1 ELSE now
                 /\ origin' = IF w.ret.session # NoSession /\ w.ret.session = chat_id
                              THEN Put(origin, chat_id,
                                       [size_mb |-> u0.temp_file_info[1].size_mb,
                                        rows |-> u0.temp_file_info[1].rows,
                                        df |-> u0.temp_df[1],
                                        clean |-> faults = {}, deleted |-> FALSE])
                              ELSE origin
                 /\ uiLast' = [UiOp("send", u0.current_session, Restores(ui), faults) EXCEPT
                                   !.notice = w.ret.notice,
                                   !.went = w.ret.session # NoSession,
                                   !.kept = w.ui = u0 /\ w.db = db /\ w.ai = ai]
                 /\ UNCHANGED <<client, resp, deletedOk, aiLast, loop, stream>>

NextCsvUi ==
    \/ OpenApp
    \/ SwitchMode
    \/ NewChat
    \/ LoadChat
    \/ DeleteChat
    \/ UploadCsv
    \/ SendMessage

SpecCsvUi == InitConfigured /\ [][NextCsvUi]_vars

(***************************************************************************)
(* The UI on its core and image pages.                                     *)
(***************************************************************************)
SwitchPage == SwitchModeAmong(ChatModes)

LoadPage == LoadChatWith(ImageRenderSites)

UploadImage ==
    \* the uploader is on the page while no image is current
    \E size \in ImageSizes, faults \in FaultsOf({"get_messages"}) :
        \E u1 \in {show_image_uploader(ui, [name |-> "img", size_mb |-> size])} :
           /\ ui.current_mode = "image"
           /\ get_current_image_data(ui, ui.current_session) = None
           /\ ui' = IF u1 # ui THEN Render(u1, db, faults) ELSE ui
           /\ uiLast' = [UiOp("upload", NoSession, NoSession, faults) EXCEPT
                             !.image_mb = size, !.kept = u1 = ui]
           /\ UNCHANGED <<storeVars, aiVars, stream, now, origin>>

SendCoreMessageUpTo(turns, inputs, sites) ==
    \* a message of inputs is typed into the core page while fewer than turns
    \* messages were sent; sites: the store calls that can fail
    /\ ui.current_mode = "core"
    /\ \E user_input \in inputs,
          faults \in FaultsOf(sites) :
        \E u0 \in {Render(ui, db, faults)} :
          \* chat_id: the next uuid4, used if a session is created
          \E chat_id \in IF uuid4(used) = {} THEN {NoSession} ELSE uuid4(used),
             reply \in IF user_input = "question" THEN Replies ELSE {"answer"} :
            /\ core_validate_user_message(user_input) = "" =>
                  /\ now < turns
                  /\ (u0.current_session = NoSession \/ u0.show_new_chat) => chat_id # NoSession
            /\ \E w \in {core_process_user_message(World(u0, db, ai, None), chat_id,
                                                   user_input, now, faults, reply)} :
                 /\ ui' = w.ui
                 /\ db' = w.db
                 /\ used' = IF w.ret.session # NoSession /\ w.ret.session = chat_id
                            THEN used \cup {chat_id} ELSE used
                 /\ now' = IF w.ret.session # NoSession THEN now + 1 ELSE now
                 /\ uiLast' = [UiOp("send", u0.current_session, NoSession, faults) EXCEPT
                                   !.notice = w.ret.notice,
                                   !.went = w.ret.session # NoSession,
                                   !.kept = w.ui = u0 /\ w.db = db /\ w.ai = ai]
                 /\ UNCHANGED <<client, resp, deletedOk, aiVars, stream, origin>>

SendCoreMessage == SendCoreMessageUpTo(MaxChatTurns, CoreUserInputs, {"create_session"})

SendImageMessage ==
    \* the chat input is on the page while an image is current
    /\ ui.current_mode = "image"
    /\ \E user_input \in UserInputs,
          faults \in FaultsOf(ChatSendSites \cup ImageRenderSites) :
        \E u0 \in {Render(ui, db, faults)} :
          \E chat_id \in IF uuid4(used) = {} THEN {NoSession} ELSE uuid4(used),
             reply \in IF user_input = "question" THEN Replies ELSE {"answer"} :
            /\ get_current_image_data(u0, u0.current_session) # None
            /\ image_validate_user_message(user_input) = "" =>
                  /\ now < MaxChatTurns
                  /\ (u0.current_session = NoSession \/ u0.show_new_chat) => chat_id # NoSession
            /\ \E w \in {image_process_user_message(World(u0, db, ai, None), chat_id,
                                                    user_input, now, faults, reply)} :
                 /\ ui' = w.ui
                 /\ db' = w.db
                 /\ used' = IF w.ret.session # NoSession /\ w.ret.session = chat_id
                            THEN used \cup {chat_id} ELSE used
                 /\ now' = IF w.ret.session # NoSession THEN now + 1 ELSE now
                 /\ uiLast' = [UiOp("send", u0.current_session, NoSession, faults) EXCEPT
                                   !.notice = w.ret.notice,
                                   !.went = w.ret.session # NoSession,
                                   !.kept = w.ui = u0 /\ w.db = db /\ w.ai = ai,
                                   !.analysed =
                                       IF w.ret.session = NoSession THEN None
                                       ELSE get_image_data_for_analysis(
                                                image_ensure_session_exists(
                                                    World(u0, db, ai, None), chat_id,
                                                    user_input, u0.current_session,
                                                    faults).ui,
                                                w.ret.session)]
                 /\ UNCHANGED <<client, resp, deletedOk, aiVars, stream, origin>>

NextChatUi ==
    \/ OpenApp
    \/ SwitchPage
    \/ NewChat
    \/ LoadPage
    \/ UploadImage
    \/ SendCoreMessage
    \/ SendImageMessage

SpecChatUi == InitConfigured /\ [][NextChatUi]_vars

(***************************************************************************)
(* The two file functions of session_manager, called with every kind of    *)
(* data the pages store: the metadata of an upload, a table read from an   *)
(* uploaded CSV text, an encoded image.  origin keeps, per session and     *)
(* file type, the data of the first record saved.                          *)
(***************************************************************************)
FileInfos == {EmptyDict, [has_keys |-> TRUE, size_mb |-> 9, rows |-> 1000]}

FileTables == {pd_read_csv(t).df[1] : t \in {t \in CsvTexts : ~pd_read_csv(t).raised}}

FileImages ==
    {b64encode([name |-> "img", size_mb |-> s, compressed |-> s > CompressAboveMb]) :
        s \in {2, 10}}

FileData(file_type) ==
    IF file_type \in {"csv_info", "image_info"} THEN FileInfos
    ELSE IF file_type = "csv_data" THEN FileTables
    ELSE FileImages

SaveFileData ==
    \E sid \in SessionIds, t \in FileTypes, fault \in BOOLEAN :
      \E x \in FileData(t) :
        \* a table is saved as _save_csv_info_to_api saves it
        \E r \in {save_session_file_data(db, sid, t,
                        IF t = "csv_data"
                        THEN [csv_string |-> pd_to_csv(x), rows |-> Len(x.rows),
                              file_name |-> "f"]
                        ELSE x,
                        "f", fault)} :
           /\ Len(db.session_files) < MaxSaves
           /\ db' = r.db
           /\ origin' = IF r.ret /\ SelectFiles(db.session_files, sid, t) = <<>>
                        THEN Put(origin, <<sid, t>>, x) ELSE origin
           /\ uiLast' = UiOp("save_file", sid, sid, IF fault THEN {"save_file"} ELSE {})
           /\ UNCHANGED <<client, used, resp, deletedOk, aiVars, stream, ui, now>>

LoadFileData ==
    \E sid \in SessionIds, t \in FileTypes, fault \in BOOLEAN :
        /\ uiLast' = [UiOp("load_file", sid, sid, IF fault THEN {"get_file"} ELSE {}) EXCEPT
                          !.file_type = t,
                          !.loaded = load_session_file_data(db, sid, t, fault)]
        /\ UNCHANGED <<storeVars, aiVars, stream, ui, now, origin>>

NextFileData ==
    \/ SaveFileData
    \/ LoadFileData

SpecFileData == InitConfigured /\ [][NextFileData]_vars

(***************************************************************************)
(* The sidebar: chats are created from the core page, opened, deleted one  *)
(* by one or all at once.                                                  *)
(***************************************************************************)
LoadListedChat ==
    \* the button of an item of the chat list as get_sorted_sessions returned it
    \E i \in 1..Len(get_sorted_sessions(ui).ret), faults \in {{}} :
        \E item \in {get_sorted_sessions(ui).ret[i]} :
            LET u1 == load_chat_session_fast(render_sidebar(ui), item[1], item[2])
            IN /\ ui' = Render(u1, db, faults)
               /\ uiLast' = UiOp("load_chat", item[1], Restores(u1), faults)
               /\ UNCHANGED <<storeVars, aiVars, stream, now, origin>>

ClearAll ==
    \* the button is on the page while there are chats, below the chat list
    \E faults \in FaultsOf(DeleteSites) :
        \E w \in {clear_all_chats(World(render_sidebar(ui), db, ai, None), faults)} :
           /\ DOMAIN ui.all_sessions # {}
           /\ ui' = Render(w.ui, w.db, faults)
           /\ db' = w.db
           /\ origin' = [k \in DOMAIN origin |->
                            IF k \in DOMAIN ui.all_sessions
                            THEN [origin[k] EXCEPT !.deleted = TRUE] ELSE origin[k]]
           /\ uiLast' = UiOp("clear_all", NoSession, Restores(w.ui), faults)
           /\ UNCHANGED <<client, used, resp, deletedOk, aiVars, stream, now>>

NextSidebar ==
    \/ OpenApp
    \/ SwitchPage
    \/ NewChat
    \/ LoadListedChat
    \/ DeleteChat
    \/ ClearAll
    \/ SendCoreMessage

SpecSidebar == InitConfigured /\ [][NextSidebar]_vars

(***************************************************************************)
(* One long conversation on the core page with the API reachable: enough   *)
(* turns for the history to pass the cap of _update_chat_history, with a   *)
(* new chat started at any point.                                          *)
(***************************************************************************)
SendCoreTurn == SendCoreMessageUpTo(MaxLongTurns, {"question", " "}, {})

NextLongChat ==
    \/ NewChat
    \/ SendCoreTurn

SpecLongChat == InitConfigured /\ [][NextLongChat]_vars

(***************************************************************************)
(* One browser session that moves between the three pages, uploads files   *)
(* and sends messages.                                                     *)
(***************************************************************************)
SwitchAnyMode == SwitchModeAmong(Modes)

NextSend ==
    \/ SwitchAnyMode
    \/ NewChat
    \/ UploadCsv
    \/ UploadImage
    \/ SendMessage
    \/ SendCoreMessage
    \/ SendImageMessage

SpecSend == InitConfigured /\ [][NextSend]_vars

(***************************************************************************)
(* Two clients post to /ai/chat/csv; one action per step of the handler.   *)
(***************************************************************************)
SendCsvRequest ==
    \* a client sends a request; overlapped: a request for the same session id
    \* was in flight at that time
    \E r \in ReqIds, sid \in SessionIds, text \in {TwoByTwo, HeaderOnly}, n \in 0..MaxPlots :
        /\ loop.req[r].pc = "none"
        /\ loop' = [loop EXCEPT
                        !.req[r] = [NoRequest EXCEPT !.pc = "queued", !.sid = sid,
                                        !.data = parse_csv_data(Json("str", text)).df[1],
                                                     !.todo = [i \in 1..n |-> FigOf(r)]],
                        !.overlapped = @ \/ \E q \in ReqIds \ {r} :
                                                InFlight(loop.req[q]) /\ loop.req[q].sid = sid]
        /\ UNCHANGED <<storeVars, ai, aiLast, stream, uiVars>>

StartAnalysis ==
    \* generate_csv_response up to agent.run: reset the plot list, get the agent
    \E r \in ReqIds :
        /\ Scheduled(loop, r)
        /\ loop.req[r].pc = "queued"
        /\ ai' = get_or_create_agent(
                     [ai EXCEPT !.plots_storage = Put(@, loop.req[r].sid, <<>>)],
                     loop.req[r].data, loop.req[r].sid, FALSE).ai
        /\ loop' = Moved(loop, r, "run")
        /\ UNCHANGED <<storeVars, aiLast, stream, uiVars>>

AgentPlots ==
    \* the agent calls its plotChart tool
    \E r \in ReqIds :
        /\ Scheduled(loop, r)
        /\ loop.req[r].pc = "run"
        /\ loop.req[r].todo # <<>>
        /\ ai' = plotChart(ai, loop.req[r].sid, Head(loop.req[r].todo))
        /\ loop' = [Moved(loop, r, "run") EXCEPT
                        !.req[r].todo = Tail(@),
                        !.req[r].made = Append(@, Head(loop.req[r].todo))]
        /\ UNCHANGED <<storeVars, aiLast, stream, uiVars>>

AgentAnswers ==
    \* agent.run returns, and generate_csv_response with it
    \E r \in ReqIds :
        /\ Scheduled(loop, r)
        /\ loop.req[r].pc = "run"
        /\ loop.req[r].todo = <<>>
        /\ loop' = Moved(loop, r, "get_plots")
        /\ UNCHANGED <<storeVars, ai, aiLast, stream, uiVars>>

ReadPlots ==
    \E r \in ReqIds :
        /\ Scheduled(loop, r)
        /\ loop.req[r].pc = "get_plots"
        /\ loop' = [Moved(loop, r, "clear_plots") EXCEPT
                        !.req[r].plots = get_plots(ai, loop.req[r].sid)]
        /\ UNCHANGED <<storeVars, ai, aiLast, stream, uiVars>>

ClearAndReply ==
    \E r \in ReqIds :
        /\ Scheduled(loop, r)
        /\ loop.req[r].pc = "clear_plots"
        /\ ai' = clear_plots(ai, loop.req[r].sid)
        /\ loop' = Moved(loop, r, "done")
        /\ UNCHANGED <<storeVars, aiLast, stream, uiVars>>

NextCsvRequests ==
    \/ SendCsvRequest
    \/ StartAnalysis
    \/ AgentPlots
    \/ AgentAnswers
    \/ ReadPlots
    \/ ClearAndReply

\* the loop runs every request it has accepted to its end
SpecCsvRequests == InitConfigured /\ [][NextCsvRequests]_vars /\ WF_vars(NextCsvRequests)

(***************************************************************************)
(* Properties.                                                             *)
(***************************************************************************)
HasMessages(d, sid) == SelectRows(d.chat_messages, sid, TRUE) # <<>>
HasFiles(d, sid) == SelectRows(d.session_files, sid, TRUE) # <<>>

\* C1: for every session that was created and then deleted by a delete_session
\* that returned True (and nothing was written under its id afterwards), every
\* later get_session_messages returns the empty list and every later
\* get_session_file returns None, for every file type.
C1_DeletedSessionHasNothing ==
    \A sid \in deletedOk :
        /\ get_session_messages(db, sid, FALSE).ret = <<>>
        /\ \A ft \in FileTypes : get_session_file(db, sid, ft, FALSE).ret = None

\* C2: DELETE /sessions/{id} for a session id with no session row is answered
\* 404 "Session not found".
C2_DeleteMissingIs404 ==
    (resp.op = "delete_session" /\ ~resp.existed) => resp.status = 404

\* C3: when a streamed reply (/ai/chat or /ai/chat/image) has ended, the
\* fragments emitted, concatenated in order, are the concatenation of the
\* contents of the chunks the model produced, empty contents included.
C3_StreamIsConcatenation ==
    stream.state = "done" =>
        Concat(stream.emitted) =
            Concat([i \in 1..Len(stream.upstream) |-> stream.upstream[i].content[1]])

C5_PlotsEmptyAfterClear ==
    (aiLast.op = "clear_plots" \/ (aiLast.op = "chat_with_csv" /\ ~aiLast.raised))
        => get_plots(ai, aiLast.sid) = <<>>

\* C5 witness: the endpoint read a non-empty plot list for a session and cleared it.
C5_Witness ==
    /\ aiLast.op = "chat_with_csv"
    /\ ~aiLast.raised
    /\ aiLast.plots # <<>>
    /\ aiLast.sid \in DOMAIN ai.plots_storage

\* C6: in every chat mode an error of the model is caught inside the response
\* generator: no exception leaves it towards the HTTP layer.
C6_NoExceptionReachesApi ==
    /\ stream.state # "raised"
    /\ aiLast.op = "generate_csv_response" => ~aiLast.raised

\* C7: a repository operation whose store call fails catches the error and
\* returns None, False or an empty collection: the error never reaches its caller.
C7_RepositoryCatchesErrors == resp.fault => ~resp.raised

\* C8: add_message for a session id with no session row returns None and
\* persists nothing, and POST /sessions/{id}/messages answers 404.
C8_AddMessageNeedsSession ==
    (resp.op = "add_message" /\ ~resp.existed) =>
        (resp.null /\ ~resp.changed /\ resp.status = 404)

\* C9: delete_session never raises; it returns False when a cascade step failed
\* and True only when no file, message or session row of the id is left.
C9_DeleteReportsCascade ==
    resp.op = "delete_session" =>
        /\ ~resp.raised
        /\ resp.fault => resp.status = 404
        /\ resp.status = 200 =>
              ~HasFiles(db, resp.sid) /\ ~HasMessages(db, resp.sid) /\ ~SessionExists(db, resp.sid)

\* C10: every persisted message belongs to an existing session row.
C10_MessagesReferenceSessions ==
    \A i \in 1..Len(db.chat_messages) : SessionExists(db, db.chat_messages[i].session_id)

\* the positions of the rows of session sid in the table chat_messages
MessagesOf(d, sid) == {i \in 1..Len(d.chat_messages) : d.chat_messages[i].session_id = sid}

\* C11: for every session id, get_session_messages returns each message row
\* stored under that id exactly once and no row of another session, in
\* non-decreasing timestamp order; it returns the empty list when no message is
\* stored under the id.
C11_MessagesOfSessionInOrder ==
    \A sid \in SessionIds :
        LET ret == get_session_messages(db, sid, FALSE).ret
            stored == MessagesOf(db, sid)
        IN /\ Len(ret) = Cardinality(stored)
           /\ \E f \in [1..Len(ret) -> stored] :
                  /\ \A j, k \in 1..Len(ret) : j # k => f[j] # f[k]
                  /\ \A k \in 1..Len(ret) : ret[k] = db.chat_messages[f[k]]
           /\ \A k \in 1..Len(ret) : ret[k].session_id = sid
           /\ \A k \in 1..(Len(ret) - 1) : ret[k].timestamp <= ret[k + 1].timestamp
           /\ stored = {} => ret = <<>>

\* C11 witness: GET /sessions/{id}/messages was answered for a session whose
\* two messages were stored with the later timestamp first.
C11_Witness ==
    /\ resp.op = "get_session_messages" /\ resp.status = 200
    /\ Len(db.chat_messages) = 2
    /\ db.chat_messages[1].session_id = resp.sid
    /\ db.chat_messages[2].session_id = resp.sid
    /\ db.chat_messages[1].timestamp > db.chat_messages[2].timestamp

\* C12: for a non-null session id, the agent is cached by the
\* generate_csv_response call that builds it and is bound to that call's
\* dataset; once cached it is never replaced or dropped, and every later
\* analysis of that session id that answers is answered from the dataset the
\* agent was built with, whatever dataset the later call passes.
C12_AgentBoundAtCreation ==
    [][/\ \A sid \in DOMAIN ai.agents :
              sid \in DOMAIN ai'.agents /\ ai'.agents[sid] = ai.agents[sid]
       /\ \A sid \in DOMAIN ai'.agents \ DOMAIN ai.agents :
              /\ Truthy(sid)
              /\ aiLast'.op \in {"generate_csv_response", "chat_with_csv"}
              /\ aiLast'.sid = sid
              /\ aiLast'.data = Some(ai'.agents[sid])
       /\ (/\ aiLast'.op \in {"generate_csv_response", "chat_with_csv"}
           /\ aiLast' # aiLast
           /\ aiLast'.sid \in DOMAIN ai.agents
           /\ aiLast'.answer.kind = "answer")
              => aiLast'.answer.df = ai.agents[aiLast'.sid]]_vars

\* C12 witness: a call passed a dataset other than the one the session's agent
\* was built with, and was answered from the agent's dataset.
C12_Witness ==
    /\ aiLast.op = "generate_csv_response"
    /\ Truthy(aiLast.sid)
    /\ aiLast.answer.kind = "answer"
    /\ aiLast.data # None
    /\ aiLast.data # Some(aiLast.answer.df)
    /\ ai.agents[aiLast.sid] = aiLast.answer.df

\* a response holds a plot that its own request did not produce, or lacks one
\* that it produced (the plot was cleared before the request read the list)
Raced ==
    \E r \in ReqIds :
        /\ loop.req[r].pc \in {"clear_plots", "done"}
        /\ loop.req[r].plots # loop.req[r].made

C14_OneFilePerType ==
    \A sid \in SessionIds, ft \in FileTypes : Len(SelectFiles(db.session_files, sid, ft)) <= 1

\* C16: when a message is sent in a CSV session whose data were restored from
\* the store with metadata that mark the dataset as large (size_mb >= 10 or
\* rows > 1000), the message is not processed: no analysis request reaches the
\* AI service, no message is appended to the chat or the store, and the user
\* is told to create a new chat and upload the file again.
C16_LargeRestoredSessionRefuses ==
    (/\ uiLast.sent
     /\ uiLast.session # NoSession
     /\ uiLast.session \in DOMAIN ui.session_data
     /\ ~ui.session_data[uiLast.session].loaded
     /\ ui.session_data[uiLast.session].file_info # None
     /\ Large(ui.session_data[uiLast.session].file_info[1]))
        => /\ ~uiLast.went
           /\ uiLast.kept
           /\ uiLast.notice = "Large file limitation: create a new chat and re-upload the file"

\* C16 witness: a question was sent in a session restored with the metadata
\* of a large upload.
C16_Witness ==
    /\ uiLast.sent
    /\ uiLast.session \in DOMAIN origin
    /\ uiLast.session \in DOMAIN ui.session_data
    /\ ~ui.session_data[uiLast.session].loaded
    /\ ui.session_data[uiLast.session].file_info # None
    /\ Large(ui.session_data[uiLast.session].file_info[1])
    /\ uiLast.notice = "Large file limitation: create a new chat and re-upload the file"


IsPrefix(s, t) == Len(s) <= Len(t) /\ \A i \in 1..Len(s) : t[i] = s[i]

\* C20: persisted messages are append-only.  A request other than a
\* delete_session keeps every message row that was stored, unchanged and in
\* place (new rows only come after them); a delete_session removes rows of the
\* session it names only and keeps the rows of every other session unchanged.
C20_MessagesAppendOnly ==
    [][ IF resp'.op = "delete_session"
        THEN SelectRows(db'.chat_messages, resp'.sid, FALSE)
                = SelectRows(db.chat_messages, resp'.sid, FALSE)
        ELSE IsPrefix(db.chat_messages, db'.chat_messages) ]_vars

\* C20 witness: a message was added to a session that already held a message,
\* after a session row and a file row were stored.
C20_Witness ==
    /\ resp.op = "add_message"
    /\ resp.changed
    /\ Len(db.chat_messages) = 2
    /\ db.chat_messages[1].session_id = db.chat_messages[2].session_id
    /\ db.chat_messages[1] # db.chat_messages[2]
    /\ db.chat_sessions # <<>>
    /\ db.session_files # <<>>


\* every data line has at most as many fields as the header line
Rectangular(lines) ==
    \A k \in 2..Len(NonBlankLines(lines)) :
        Len(NonBlankLines(lines)[k]) <= Len(NonBlankLines(lines)[1])

\* C17: when POST /ai/chat/csv gets a query and a non-blank CSV string, the
\* dataset handed to the analysis is the table parsed from it: one column per
\* field of the header line, in order and with the field's name, and one row
\* per data line with that line's fields, so "a,b" with two data lines gives 2
\* rows and 2 columns; the agent that answers works on a table; a string with
\* a line longer than its header is rejected before any analysis.
C17_CsvStringParsedBeforeAgent ==
    (/\ aiLast.op = "chat_with_csv"
     /\ aiLast.csv_data.type = "str"
     /\ Stripped(aiLast.csv_data.value)
     /\ aiLast.answer.kind # "400: Enhanced query is required")
        => LET lines == NonBlankLines(aiLast.csv_data.value)
           IN /\ aiLast.answer.kind = "answer" => DOMAIN aiLast.answer.df = {"columns", "rows", "index"}
              /\ aiLast.csv_data.value = TwoByTwo =>
                    /\ aiLast.data # None
                    /\ Len(aiLast.data[1].rows) = 2
                    /\ Len(aiLast.data[1].columns) = 2
              /\ IF Rectangular(aiLast.csv_data.value)
                 THEN /\ aiLast.data # None
                      /\ Len(aiLast.data[1].columns) = Len(lines[1])
                      /\ \A i \in 1..Len(lines[1]) : aiLast.data[1].columns[i].name = lines[1][i]
                      /\ \A i, j \in 1..Len(lines[1]) :
                            i # j => aiLast.data[1].columns[i] # aiLast.data[1].columns[j]
                      /\ Len(aiLast.data[1].rows) = Len(lines) - 1
                      /\ \A k \in 1..(Len(lines) - 1) :
                            /\ Len(aiLast.data[1].rows[k]) = Len(lines[1])
                            /\ \A i \in 1..Len(lines[k + 1]) :
                                  aiLast.data[1].rows[k][i] = lines[k + 1][i]
                      /\ aiLast.answer.kind \in {"answer", "error analyzing"}
                 ELSE aiLast.data = None => aiLast.raised /\ aiLast.plots = <<>>

\* C17 witness: the request carried "a,b" with two data lines under a session
\* id without an agent, and the agent created on the parsed table answered.
C17_Witness ==
    /\ aiLast.op = "chat_with_csv"
    /\ aiLast.csv_data = Json("str", TwoByTwo)
    /\ aiLast.answer.kind = "answer"
    /\ aiLast.data = Some(aiLast.answer.df)
    /\ Len(aiLast.answer.df.rows) = 2
    /\ Truthy(aiLast.sid)
    /\ ai.agents[aiLast.sid] = aiLast.answer.df


ImageMb(image_data) == image_data.base64.size_mb

\* C15: an image of more than 10 MB put into the uploader is refused there:
\* the upload leaves the session state as it was, with no temporary image,
\* so the page offers no chat input for it; and no temporary image, no image
\* of a session and no stored 'image' or 'image_info' record is ever one of
\* more than 10 MB.
C15_OversizedImageRejected ==
    /\ uiLast.image_mb > ImageMaxMb =>
          /\ uiLast.kept
          /\ ui.temp_image_data = None
          /\ ui.uploaded_image_name = None
          /\ get_current_image_data(ui, ui.current_session) = None
    /\ ui.temp_image_data # None => ImageMb(ui.temp_image_data[1]) <= ImageMaxMb
    /\ \A sid \in DOMAIN ui.session_data :
          /\ ui.session_data[sid].image_data # None =>
                ImageMb(ui.session_data[sid].image_data[1]) <= ImageMaxMb
          /\ ui.session_data[sid].file_info[1].size_mb <= ImageMaxMb
    /\ \A i \in 1..Len(db.session_files) :
          /\ db.session_files[i].file_type = "image" =>
                ImageMb(db.session_files[i].file_data.image_data) <= ImageMaxMb
          /\ db.session_files[i].file_type = "image_info" =>
                db.session_files[i].file_data.metadata.size_mb <= ImageMaxMb

\* C15 witness: an image of more than 10 MB was just refused, after a session
\* was started with an accepted image whose records are in the store.
C15_Witness ==
    /\ uiLast.image_mb > ImageMaxMb
    /\ ui.current_mode = "image"
    /\ \E i, j \in 1..Len(db.session_files) :
          /\ db.session_files[i].file_type = "image"
          /\ db.session_files[j].file_type = "image_info"
          /\ db.session_files[j].file_data.metadata.size_mb = ImageMaxMb


StoredSessionIds(d) == {d.chat_sessions[i].session_id : i \in 1..Len(d.chat_sessions)}

\* C18: a session comes into being, as an entry of all_sessions and as a
\* session record of the store, only in the step that processes a message
\* which passed validation while no session was current (current_session is
\* null or show_new_chat is set), and that step creates exactly one; 'New
\* Chat', a switch of mode and the loading of a session create none (a new
\* browser session only lists the records of the store), and a message sent
\* in a current session creates none.
C18_SessionOnlyOnFirstMessage ==
    [][ /\ (\/ ~(StoredSessionIds(db') \subseteq StoredSessionIds(db))
            \/ Len(db'.chat_sessions) > Len(db.chat_sessions)
            \/ ~(DOMAIN ui'.all_sessions \subseteq DOMAIN ui.all_sessions \cup StoredSessionIds(db)))
           => /\ uiLast'.sent
              /\ uiLast'.went
              /\ uiLast'.notice = ""
              /\ ui.current_session = NoSession \/ ui.show_new_chat
              /\ Cardinality(DOMAIN ui'.all_sessions \ DOMAIN ui.all_sessions) = 1
              /\ ui'.current_session \in DOMAIN ui'.all_sessions \ DOMAIN ui.all_sessions
              /\ \/ db'.chat_sessions = db.chat_sessions
                 \/ /\ Len(db'.chat_sessions) = Len(db.chat_sessions) + 1
                    /\ SubSeq(db'.chat_sessions, 1, Len(db.chat_sessions)) = db.chat_sessions
                    /\ db'.chat_sessions[Len(db'.chat_sessions)].session_id = ui'.current_session
        /\ (uiLast'.sent /\ ~(ui.current_session = NoSession \/ ui.show_new_chat))
           => /\ db'.chat_sessions = db.chat_sessions
              /\ DOMAIN ui'.all_sessions = DOMAIN ui.all_sessions
              /\ uiLast'.went => ui'.current_session = ui.current_session
        /\ (uiLast'.sent /\ ~uiLast'.went)
           => /\ db'.chat_sessions = db.chat_sessions
              /\ DOMAIN ui'.all_sessions = DOMAIN ui.all_sessions ]_vars

\* C18 witness: a second message was processed in the session that the first
\* message created; there is still one session, now with four messages.
C18_Witness ==
    /\ uiLast.sent
    /\ uiLast.went
    /\ uiLast.session # NoSession
    /\ uiLast.session = ui.current_session
    /\ DOMAIN ui.all_sessions = {uiLast.session}
    /\ Len(db.chat_sessions) = 1
    /\ Len(db.chat_messages) = 4


\* the input fails the validation of the page: it is blank, longer than the
\* page allows, or the page is the CSV page and no dataset is loaded
FailsValidation(u, user_input) ==
    \/ StrippedLen(user_input) = 0
    \/ StrippedLen(user_input) > (IF u.current_mode = "core" THEN CoreMaxChars ELSE PageMaxChars)
    \/ u.current_mode = "csv" /\ get_current_dataframe(u, u.current_session) = None

\* the id uuid4 would hand out next
NextId == IF uuid4(used) = {} THEN NoSession ELSE CHOOSE chat_id \in uuid4(used) : TRUE

\* what the page of the current mode does with a message, from the state as it is
Processed(user_input) ==
    IF ui.current_mode = "core"
    THEN core_process_user_message(World(ui, db, ai, None), NextId, user_input, now, {},
                                   "answer")
    ELSE IF ui.current_mode = "image"
    THEN image_process_user_message(World(ui, db, ai, None), NextId, user_input, now, {},
                                    "answer")
    ELSE process_user_message(World(ui, db, ai, None), NextId, user_input, now, {},
                              CHOOSE r \in UiRuns : TRUE)

\* C19: a message that fails validation (blank, longer than 4000 characters
\* on the core page or 2000 on the image and CSV pages, or sent on the CSV
\* page with no dataset loaded) is refused with an error notice and changes
\* nothing: session state (current_session, current_messages, all_sessions
\* and the rest), store and AI service are as before, so no session is created
\* and no request was made; this holds for the message just sent and for every
\* message that could be sent from the state reached.
C19_InvalidMessageChangesNothing ==
    /\ (uiLast.sent /\ uiLast.notice # "") => (uiLast.kept /\ ~uiLast.went)
    /\ \A user_input \in CoreUserInputs :
          FailsValidation(ui, user_input) =>
              /\ Processed(user_input).ui = ui
              /\ Processed(user_input).db = db
              /\ Processed(user_input).ai = ai
              /\ Processed(user_input).ret.session = NoSession
              /\ Processed(user_input).ret.notice # ""

\* C19 witness: on the image page, with an uploaded image waiting and no
\* session yet, a question of more than 2000 characters was refused.
C19_Witness ==
    /\ uiLast.sent
    /\ uiLast.notice = "Question too long"
    /\ ui.current_mode = "image"
    /\ ui.temp_image_data # None
    /\ ui.current_session = NoSession
    /\ ui.all_sessions = <<>>

(***************************************************************************)
(* C21: the key sets of the agent map and of the plot map never shrink: no *)
(* step, a session deletion and clear_plots included, removes a session id *)
(* from agents or from plots_storage.                                      *)
(***************************************************************************)
C21_ServiceKeysNeverShrink ==
    [][ /\ DOMAIN ai.agents \subseteq DOMAIN ai'.agents
        /\ DOMAIN ai.plots_storage \subseteq DOMAIN ai'.plots_storage ]_vars

\* a session that had an agent and a plot list was deleted from the store, and
\* both entries are still there
C21_Witness ==
    /\ resp.op = "delete_session" /\ resp.existed /\ resp.status = 200
    /\ ~SessionExists(db, resp.sid)
    /\ resp.sid \in DOMAIN ai.agents
    /\ resp.sid \in DOMAIN ai.plots_storage
    /\ aiLast.op = "clear_plots" /\ aiLast.sid = resp.sid

(***************************************************************************)
(* C22: a /ai/chat/csv request with an empty enhanced_query is answered    *)
(* with status 400 "Enhanced query is required", one whose csv_data cannot *)
(* be parsed with status 400 "Failed to parse CSV data", and in both cases *)
(* the agent is not invoked.                                               *)
(***************************************************************************)
C22_BadCsvRequestIs400 ==
    aiLast.op = "chat_with_csv" =>
        /\ aiLast.query = "" =>
               /\ aiLast.status = 400
               /\ aiLast.answer.kind = "Enhanced query is required"
               /\ ~aiLast.agent_ran
        /\ (aiLast.query # "" /\ parse_csv_data(aiLast.csv_data).raised) =>
               /\ aiLast.status = 400
               /\ aiLast.answer.kind = "Failed to parse CSV data"
               /\ ~aiLast.agent_ran

(***************************************************************************)
(* C23: with the API reachable, after every completed turn in a session,   *)
(* also beyond the local history cap, the backend message list of that     *)
(* session holds the turn's user message and its assistant message, each   *)
(* exactly once.                                                           *)
(***************************************************************************)
TurnRows(d, sid, t, role) ==
    \* the rows of session sid written for the message of role in turn t
    {i \in 1..Len(d.chat_messages) :
        /\ d.chat_messages[i].session_id = sid
        /\ d.chat_messages[i].role = role
        /\ d.chat_messages[i].timestamp = 2 * t + (IF role = "user" THEN 1 ELSE 2)}

C23_EveryTurnStoredOnce ==
    (uiLast.sent /\ uiLast.went /\ uiLast.clean) =>
        /\ Cardinality(TurnRows(db, ui.current_session, now - 1, "user")) = 1
        /\ Cardinality(TurnRows(db, ui.current_session, now - 1, "assistant")) = 1

(***************************************************************************)
(* C24: whenever the history of the current session S is displayed or a    *)
(* message is processed in S, current_messages holds only messages of S:   *)
(* no message in it is stored in the backend under another session.        *)
(***************************************************************************)
OnlyOwnMessages(u, d) ==
    \A i \in 1..Len(u.current_messages), j \in 1..Len(d.chat_messages) :
        (/\ d.chat_messages[j].timestamp = u.current_messages[i].timestamp
         /\ d.chat_messages[j].role = u.current_messages[i].role)
            => d.chat_messages[j].session_id = u.current_session

C24_HistoryIsOfCurrentSession ==
    (ui.current_session # NoSession /\ ~ui.show_new_chat) => OnlyOwnMessages(ui, db)

(***************************************************************************)
(* C25: the image sent to the backend for a message in an existing session *)
(* S is the one attached to S; temporary upload data left from an upload   *)
(* made before S was opened from the sidebar is never used.  A session    *)
(* that has an image shows no uploader, so temporary data met there was    *)
(* uploaded before the session was opened.                                 *)
(***************************************************************************)
AttachedImage(u, sid) ==
    IF sid \in DOMAIN u.session_data THEN u.session_data[sid].image_data ELSE None

C25_AnalysisUsesSessionData ==
    (/\ uiLast.sent /\ uiLast.went /\ uiLast.session # NoSession
     /\ ui.current_mode = "image"
     /\ AttachedImage(ui, uiLast.session) # None) =>
        uiLast.analysed = AttachedImage(ui, uiLast.session)

(***************************************************************************)
(* C26: get_sorted_sessions returns exactly the sessions that are in       *)
(* all_sessions, newest first by creation time, whatever sessions were     *)
(* created and deleted before.  Sessions are created in the order of       *)
(* IdOrder, so the newest session is the one with the greatest index.      *)
(***************************************************************************)
ListedIds(u) ==
    [i \in 1..Len(get_sorted_sessions(u).ret) |-> get_sorted_sessions(u).ret[i][1]]

C26_SortedSessionsAreCurrent ==
    /\ {ListedIds(ui)[i] : i \in 1..Len(ListedIds(ui))} = DOMAIN ui.all_sessions
    /\ Len(ListedIds(ui)) = Cardinality(DOMAIN ui.all_sessions)
    /\ \A i, j \in 1..Len(ListedIds(ui)) :
           i < j => IdIndex(ListedIds(ui)[i]) > IdIndex(ListedIds(ui)[j])

(***************************************************************************)
(* C27: if the backend fails to create the session, the first message of a *)
(* chat is answered with "Failed to create chat session": no session is    *)
(* added to all_sessions, current_session stays as it was and no chat      *)
(* request is sent; every session of all_sessions exists in the backend.   *)
(* On the core page create_session is the only call of a message that can  *)
(* fail, so a message sent without a current session and with a failing    *)
(* call is one whose session the backend did not create.                   *)
(***************************************************************************)
C27_FailedCreateAddsNothing ==
    /\ (/\ uiLast.sent /\ ~uiLast.clean /\ uiLast.session = NoSession
        /\ ui.current_mode = "core"
        /\ uiLast.notice \notin {"Please enter a message", "Message too long"}) =>
           /\ uiLast.notice = "Failed to create chat session"
           /\ ~uiLast.went
           /\ uiLast.kept
    /\ DOMAIN ui.all_sessions \subseteq StoredSessionIds(db)

(***************************************************************************)
(* C28: for each file type and a session without an earlier record of that *)
(* type, load_session_file_data after save_session_file_data returns what  *)
(* was saved: the metadata mapping for csv_info and image_info, the same   *)
(* table (labels, rows and row index) for csv_data, the same base64 string *)
(* for image.                                                              *)
(***************************************************************************)
SameTable(f, g) ==
    /\ [i \in 1..Len(f.columns) |-> ColumnLabel(f.columns[i])]
           = [i \in 1..Len(g.columns) |-> ColumnLabel(g.columns[i])]
    /\ f.rows = g.rows
    /\ f.index = g.index

IsFigure(data) == data # "not json"

\* what the calls of one request store for its session id
StoredDuring(call) ==
    IF Truthy(call.sid) THEN SelectSeq(call.calls, IsFigure) ELSE <<>>

C29_PlotsAreOfThisRequest ==
    (aiLast.op = "chat_with_csv" /\ aiLast.status = 200) =>
        /\ aiLast.plots = StoredDuring(aiLast)
        /\ (aiLast.sid = NoSession \/ aiLast.data = None) => aiLast.plots = <<>>

\* a request of a session that already has an agent returns its two figures
\* in the order drawn, and leaves the session's list empty
C29_Witness ==
    /\ aiLast.op = "chat_with_csv" /\ aiLast.status = 200
    /\ aiLast.calls = <<"fig 2", "fig">>
    /\ aiLast.plots = <<"fig 2", "fig">>
    /\ aiLast.sid \in DOMAIN ai.agents
    /\ get_plots(ai, aiLast.sid) = <<>>

(***************************************************************************)
(* C30: in every state of the UI, a current session that is not None is a  *)
(* key of all_sessions and current_mode is the mode of that session,       *)
(* whatever sequence of mode switch, new chat, first message, load,        *)
(* delete and clear all led there.                                         *)
(***************************************************************************)
C30_CurrentSessionIsKnown ==
    ui.current_session # NoSession =>
        /\ ui.current_session \in DOMAIN ui.all_sessions
        /\ ui.current_mode = ui.all_sessions[ui.current_session].mode

====
